---- MODULE Spec2Model ----
(***************************************************************************)
(* Model of src/main.py: a Gemini retrieval server and a line-oriented     *)
(* file-transfer server sharing one cooperative scheduler.                 *)
(*                                                                         *)
(* Text and bytes are sequences of one-character strings, so that          *)
(* str.strip, str.split, str.find, int() and the substring test of         *)
(* safe_join are computed, not assumed.  The token BadByte stands for a    *)
(* byte sequence that bytes.decode() rejects.  None is the Python None.    *)
(* Dictionaries are sequences of entries in insertion order.               *)
(* The modification marker st[8] of a file is the clock second of its      *)
(* last write.                                                             *)
(* A stream writer's write() hands over its bytes and returns None, so the *)
(* `await writer.write(...)` of the transfer handler raises TypeError      *)
(* right after the bytes are written.  The transfer port builds its writer *)
(* with empty extra info, so get_extra_info("peername") there either       *)
(* raises KeyError or yields None, depending on the stream class.          *)
(***************************************************************************)
EXTENDS Integers, Sequences, FiniteSets, TLC

\* ------------------------------------------------------------------ bounds
MaxConns  == 2   \* connections accepted in one run of the whole server
MaxInputs == 2   \* request and command lines read in one run of the whole server
MaxPeers  == 2   \* connections accepted in one run of the transfer port alone
MaxCmds   == 4   \* command lines read in one run of the transfer port alone
MaxTime   == 1   \* last clock second reached in one run
MaxPathLen == 5  \* longest path text tried against safe_join
MaxCacheConns == 2   \* connections accepted in one run of the warm server
MaxCacheInputs == 4  \* request and command lines read in one run of the warm server
MaxPathConns == 2    \* connections accepted in one run of the path check
MaxPathInputs == 4   \* request and command lines read in one run of the path check

\* ------------------------------------------------------- string primitives
None    == <<"<None>">>
BadByte == "<0xff>"

\* the characters str.strip(), str.split() and int() treat as whitespace;
\* those TLA+ has no escape for are written as tokens
Whitespace ==
    {" ", "\n", "\r", "\t", "\f", "<0x0b>", "<0x1c>", "<0x1d>", "<0x1e>", "<0x1f>",
     "<U+0085>", "<U+00A0>", "<U+1680>", "<U+2000>", "<U+2001>", "<U+2002>",
     "<U+2003>", "<U+2004>", "<U+2005>", "<U+2006>", "<U+2007>", "<U+2008>",
     "<U+2009>", "<U+200A>", "<U+2028>", "<U+2029>", "<U+202F>", "<U+205F>",
     "<U+3000>"}
Slash      == {"/"}

RECURSIVE lstrip(_, _)
lstrip(s, cs) ==
    IF s # <<>> /\ Head(s) \in cs THEN lstrip(Tail(s), cs) ELSE s

RECURSIVE rstrip(_, _)
rstrip(s, cs) ==
    IF s # <<>> /\ s[Len(s)] \in cs THEN rstrip(SubSeq(s, 1, Len(s) - 1), cs) ELSE s

strip(s, cs) == rstrip(lstrip(s, cs), cs)

startswith(s, p) == Len(s) >= Len(p) /\ SubSeq(s, 1, Len(p)) = p

endswith(s, p) == Len(s) >= Len(p) /\ SubSeq(s, Len(s) - Len(p) + 1, Len(s)) = p

\* s[i:] with a 0-based index, as Python slices
From(s, i) == SubSeq(s, i + 1, Len(s))

\* str.find(sub, start): 0-based index of the first occurrence, or -1
find(s, sub, start) ==
    LET hits == {i \in start .. (Len(s) - Len(sub)) :
                     SubSeq(s, i + 1, i + Len(sub)) = sub}
    IN  IF hits = {} THEN -1 ELSE CHOOSE i \in hits : \A j \in hits : i <= j

\* the Python test  sub in s
contains(s, sub) == find(s, sub, 0) # -1

RECURSIVE join(_, _)
join(sep, parts) ==
    IF parts = <<>> THEN <<>>
    ELSE IF Len(parts) = 1 THEN parts[1]
    ELSE parts[1] \o sep \o join(sep, Tail(parts))

\* str.split(sep) on one separator character: empty fields are kept
RECURSIVE splitOn(_, _)
splitOn(s, ch) ==
    LET i == find(s, <<ch>>, 0)
    IN  IF i = -1 THEN <<s>>
        ELSE <<SubSeq(s, 1, i)>> \o splitOn(From(s, i + 1), ch)

\* length of the leading run of characters outside cs
RECURSIVE wordLen(_, _)
wordLen(s, cs) ==
    IF s = <<>> \/ Head(s) \in cs THEN 0 ELSE 1 + wordLen(Tail(s), cs)

\* str.split(): fields separated by runs of whitespace, no empty fields
RECURSIVE split(_)
split(s) ==
    LET t == lstrip(s, Whitespace)
        n == wordLen(t, Whitespace)
    IN  IF t = <<>> THEN <<>>
        ELSE <<SubSeq(t, 1, n)>> \o split(From(t, n))

\* str.split(maxsplit=1)
split1(s) ==
    LET t == lstrip(s, Whitespace)
        n == wordLen(t, Whitespace)
        r == lstrip(From(t, n), Whitespace)
    IN  IF t = <<>> THEN <<>>
        ELSE IF r = <<>> THEN <<SubSeq(t, 1, n)>>
        ELSE <<SubSeq(t, 1, n), r>>

Digits == <<"0", "1", "2", "3", "4", "5", "6", "7", "8", "9">>

\* the characters int() reads as a decimal digit, by value: entry v + 1
\* holds the ASCII digit and every other decimal digit of value v, the
\* latter written as tokens
DecimalDigits ==
    <<
      {"0", "<U+0660>", "<U+06F0>", "<U+07C0>", "<U+0966>", "<U+09E6>",
       "<U+0A66>", "<U+0AE6>", "<U+0B66>", "<U+0BE6>", "<U+0C66>",
       "<U+0CE6>", "<U+0D66>", "<U+0DE6>", "<U+0E50>", "<U+0ED0>",
       "<U+0F20>", "<U+1040>", "<U+1090>", "<U+17E0>", "<U+1810>",
       "<U+1946>", "<U+19D0>", "<U+1A80>", "<U+1A90>", "<U+1B50>",
       "<U+1BB0>", "<U+1C40>", "<U+1C50>", "<U+A620>", "<U+A8D0>",
       "<U+A900>", "<U+A9D0>", "<U+A9F0>", "<U+AA50>", "<U+ABF0>",
       "<U+FF10>", "<U+104A0>", "<U+10D30>", "<U+11066>", "<U+110F0>",
       "<U+11136>", "<U+111D0>", "<U+112F0>", "<U+11450>", "<U+114D0>",
       "<U+11650>", "<U+116C0>", "<U+11730>", "<U+118E0>", "<U+11950>",
       "<U+11C50>", "<U+11D50>", "<U+11DA0>", "<U+16A60>", "<U+16AC0>",
       "<U+16B50>", "<U+1D7CE>", "<U+1D7D8>", "<U+1D7E2>", "<U+1D7EC>",
       "<U+1D7F6>", "<U+1E140>", "<U+1E2F0>", "<U+1E950>", "<U+1FBF0>"},
      {"1", "<U+0661>", "<U+06F1>", "<U+07C1>", "<U+0967>", "<U+09E7>",
       "<U+0A67>", "<U+0AE7>", "<U+0B67>", "<U+0BE7>", "<U+0C67>",
       "<U+0CE7>", "<U+0D67>", "<U+0DE7>", "<U+0E51>", "<U+0ED1>",
       "<U+0F21>", "<U+1041>", "<U+1091>", "<U+17E1>", "<U+1811>",
       "<U+1947>", "<U+19D1>", "<U+1A81>", "<U+1A91>", "<U+1B51>",
       "<U+1BB1>", "<U+1C41>", "<U+1C51>", "<U+A621>", "<U+A8D1>",
       "<U+A901>", "<U+A9D1>", "<U+A9F1>", "<U+AA51>", "<U+ABF1>",
       "<U+FF11>", "<U+104A1>", "<U+10D31>", "<U+11067>", "<U+110F1>",
       "<U+11137>", "<U+111D1>", "<U+112F1>", "<U+11451>", "<U+114D1>",
       "<U+11651>", "<U+116C1>", "<U+11731>", "<U+118E1>", "<U+11951>",
       "<U+11C51>", "<U+11D51>", "<U+11DA1>", "<U+16A61>", "<U+16AC1>",
       "<U+16B51>", "<U+1D7CF>", "<U+1D7D9>", "<U+1D7E3>", "<U+1D7ED>",
       "<U+1D7F7>", "<U+1E141>", "<U+1E2F1>", "<U+1E951>", "<U+1FBF1>"},
      {"2", "<U+0662>", "<U+06F2>", "<U+07C2>", "<U+0968>", "<U+09E8>",
       "<U+0A68>", "<U+0AE8>", "<U+0B68>", "<U+0BE8>", "<U+0C68>",
       "<U+0CE8>", "<U+0D68>", "<U+0DE8>", "<U+0E52>", "<U+0ED2>",
       "<U+0F22>", "<U+1042>", "<U+1092>", "<U+17E2>", "<U+1812>",
       "<U+1948>", "<U+19D2>", "<U+1A82>", "<U+1A92>", "<U+1B52>",
       "<U+1BB2>", "<U+1C42>", "<U+1C52>", "<U+A622>", "<U+A8D2>",
       "<U+A902>", "<U+A9D2>", "<U+A9F2>", "<U+AA52>", "<U+ABF2>",
       "<U+FF12>", "<U+104A2>", "<U+10D32>", "<U+11068>", "<U+110F2>",
       "<U+11138>", "<U+111D2>", "<U+112F2>", "<U+11452>", "<U+114D2>",
       "<U+11652>", "<U+116C2>", "<U+11732>", "<U+118E2>", "<U+11952>",
       "<U+11C52>", "<U+11D52>", "<U+11DA2>", "<U+16A62>", "<U+16AC2>",
       "<U+16B52>", "<U+1D7D0>", "<U+1D7DA>", "<U+1D7E4>", "<U+1D7EE>",
       "<U+1D7F8>", "<U+1E142>", "<U+1E2F2>", "<U+1E952>", "<U+1FBF2>"},
      {"3", "<U+0663>", "<U+06F3>", "<U+07C3>", "<U+0969>", "<U+09E9>",
       "<U+0A69>", "<U+0AE9>", "<U+0B69>", "<U+0BE9>", "<U+0C69>",
       "<U+0CE9>", "<U+0D69>", "<U+0DE9>", "<U+0E53>", "<U+0ED3>",
       "<U+0F23>", "<U+1043>", "<U+1093>", "<U+17E3>", "<U+1813>",
       "<U+1949>", "<U+19D3>", "<U+1A83>", "<U+1A93>", "<U+1B53>",
       "<U+1BB3>", "<U+1C43>", "<U+1C53>", "<U+A623>", "<U+A8D3>",
       "<U+A903>", "<U+A9D3>", "<U+A9F3>", "<U+AA53>", "<U+ABF3>",
       "<U+FF13>", "<U+104A3>", "<U+10D33>", "<U+11069>", "<U+110F3>",
       "<U+11139>", "<U+111D3>", "<U+112F3>", "<U+11453>", "<U+114D3>",
       "<U+11653>", "<U+116C3>", "<U+11733>", "<U+118E3>", "<U+11953>",
       "<U+11C53>", "<U+11D53>", "<U+11DA3>", "<U+16A63>", "<U+16AC3>",
       "<U+16B53>", "<U+1D7D1>", "<U+1D7DB>", "<U+1D7E5>", "<U+1D7EF>",
       "<U+1D7F9>", "<U+1E143>", "<U+1E2F3>", "<U+1E953>", "<U+1FBF3>"},
      {"4", "<U+0664>", "<U+06F4>", "<U+07C4>", "<U+096A>", "<U+09EA>",
       "<U+0A6A>", "<U+0AEA>", "<U+0B6A>", "<U+0BEA>", "<U+0C6A>",
       "<U+0CEA>", "<U+0D6A>", "<U+0DEA>", "<U+0E54>", "<U+0ED4>",
       "<U+0F24>", "<U+1044>", "<U+1094>", "<U+17E4>", "<U+1814>",
       "<U+194A>", "<U+19D4>", "<U+1A84>", "<U+1A94>", "<U+1B54>",
       "<U+1BB4>", "<U+1C44>", "<U+1C54>", "<U+A624>", "<U+A8D4>",
       "<U+A904>", "<U+A9D4>", "<U+A9F4>", "<U+AA54>", "<U+ABF4>",
       "<U+FF14>", "<U+104A4>", "<U+10D34>", "<U+1106A>", "<U+110F4>",
       "<U+1113A>", "<U+111D4>", "<U+112F4>", "<U+11454>", "<U+114D4>",
       "<U+11654>", "<U+116C4>", "<U+11734>", "<U+118E4>", "<U+11954>",
       "<U+11C54>", "<U+11D54>", "<U+11DA4>", "<U+16A64>", "<U+16AC4>",
       "<U+16B54>", "<U+1D7D2>", "<U+1D7DC>", "<U+1D7E6>", "<U+1D7F0>",
       "<U+1D7FA>", "<U+1E144>", "<U+1E2F4>", "<U+1E954>", "<U+1FBF4>"},
      {"5", "<U+0665>", "<U+06F5>", "<U+07C5>", "<U+096B>", "<U+09EB>",
       "<U+0A6B>", "<U+0AEB>", "<U+0B6B>", "<U+0BEB>", "<U+0C6B>",
       "<U+0CEB>", "<U+0D6B>", "<U+0DEB>", "<U+0E55>", "<U+0ED5>",
       "<U+0F25>", "<U+1045>", "<U+1095>", "<U+17E5>", "<U+1815>",
       "<U+194B>", "<U+19D5>", "<U+1A85>", "<U+1A95>", "<U+1B55>",
       "<U+1BB5>", "<U+1C45>", "<U+1C55>", "<U+A625>", "<U+A8D5>",
       "<U+A905>", "<U+A9D5>", "<U+A9F5>", "<U+AA55>", "<U+ABF5>",
       "<U+FF15>", "<U+104A5>", "<U+10D35>", "<U+1106B>", "<U+110F5>",
       "<U+1113B>", "<U+111D5>", "<U+112F5>", "<U+11455>", "<U+114D5>",
       "<U+11655>", "<U+116C5>", "<U+11735>", "<U+118E5>", "<U+11955>",
       "<U+11C55>", "<U+11D55>", "<U+11DA5>", "<U+16A65>", "<U+16AC5>",
       "<U+16B55>", "<U+1D7D3>", "<U+1D7DD>", "<U+1D7E7>", "<U+1D7F1>",
       "<U+1D7FB>", "<U+1E145>", "<U+1E2F5>", "<U+1E955>", "<U+1FBF5>"},
      {"6", "<U+0666>", "<U+06F6>", "<U+07C6>", "<U+096C>", "<U+09EC>",
       "<U+0A6C>", "<U+0AEC>", "<U+0B6C>", "<U+0BEC>", "<U+0C6C>",
       "<U+0CEC>", "<U+0D6C>", "<U+0DEC>", "<U+0E56>", "<U+0ED6>",
       "<U+0F26>", "<U+1046>", "<U+1096>", "<U+17E6>", "<U+1816>",
       "<U+194C>", "<U+19D6>", "<U+1A86>", "<U+1A96>", "<U+1B56>",
       "<U+1BB6>", "<U+1C46>", "<U+1C56>", "<U+A626>", "<U+A8D6>",
       "<U+A906>", "<U+A9D6>", "<U+A9F6>", "<U+AA56>", "<U+ABF6>",
       "<U+FF16>", "<U+104A6>", "<U+10D36>", "<U+1106C>", "<U+110F6>",
       "<U+1113C>", "<U+111D6>", "<U+112F6>", "<U+11456>", "<U+114D6>",
       "<U+11656>", "<U+116C6>", "<U+11736>", "<U+118E6>", "<U+11956>",
       "<U+11C56>", "<U+11D56>", "<U+11DA6>", "<U+16A66>", "<U+16AC6>",
       "<U+16B56>", "<U+1D7D4>", "<U+1D7DE>", "<U+1D7E8>", "<U+1D7F2>",
       "<U+1D7FC>", "<U+1E146>", "<U+1E2F6>", "<U+1E956>", "<U+1FBF6>"},
      {"7", "<U+0667>", "<U+06F7>", "<U+07C7>", "<U+096D>", "<U+09ED>",
       "<U+0A6D>", "<U+0AED>", "<U+0B6D>", "<U+0BED>", "<U+0C6D>",
       "<U+0CED>", "<U+0D6D>", "<U+0DED>", "<U+0E57>", "<U+0ED7>",
       "<U+0F27>", "<U+1047>", "<U+1097>", "<U+17E7>", "<U+1817>",
       "<U+194D>", "<U+19D7>", "<U+1A87>", "<U+1A97>", "<U+1B57>",
       "<U+1BB7>", "<U+1C47>", "<U+1C57>", "<U+A627>", "<U+A8D7>",
       "<U+A907>", "<U+A9D7>", "<U+A9F7>", "<U+AA57>", "<U+ABF7>",
       "<U+FF17>", "<U+104A7>", "<U+10D37>", "<U+1106D>", "<U+110F7>",
       "<U+1113D>", "<U+111D7>", "<U+112F7>", "<U+11457>", "<U+114D7>",
       "<U+11657>", "<U+116C7>", "<U+11737>", "<U+118E7>", "<U+11957>",
       "<U+11C57>", "<U+11D57>", "<U+11DA7>", "<U+16A67>", "<U+16AC7>",
       "<U+16B57>", "<U+1D7D5>", "<U+1D7DF>", "<U+1D7E9>", "<U+1D7F3>",
       "<U+1D7FD>", "<U+1E147>", "<U+1E2F7>", "<U+1E957>", "<U+1FBF7>"},
      {"8", "<U+0668>", "<U+06F8>", "<U+07C8>", "<U+096E>", "<U+09EE>",
       "<U+0A6E>", "<U+0AEE>", "<U+0B6E>", "<U+0BEE>", "<U+0C6E>",
       "<U+0CEE>", "<U+0D6E>", "<U+0DEE>", "<U+0E58>", "<U+0ED8>",
       "<U+0F28>", "<U+1048>", "<U+1098>", "<U+17E8>", "<U+1818>",
       "<U+194E>", "<U+19D8>", "<U+1A88>", "<U+1A98>", "<U+1B58>",
       "<U+1BB8>", "<U+1C48>", "<U+1C58>", "<U+A628>", "<U+A8D8>",
       "<U+A908>", "<U+A9D8>", "<U+A9F8>", "<U+AA58>", "<U+ABF8>",
       "<U+FF18>", "<U+104A8>", "<U+10D38>", "<U+1106E>", "<U+110F8>",
       "<U+1113E>", "<U+111D8>", "<U+112F8>", "<U+11458>", "<U+114D8>",
       "<U+11658>", "<U+116C8>", "<U+11738>", "<U+118E8>", "<U+11958>",
       "<U+11C58>", "<U+11D58>", "<U+11DA8>", "<U+16A68>", "<U+16AC8>",
       "<U+16B58>", "<U+1D7D6>", "<U+1D7E0>", "<U+1D7EA>", "<U+1D7F4>",
       "<U+1D7FE>", "<U+1E148>", "<U+1E2F8>", "<U+1E958>", "<U+1FBF8>"},
      {"9", "<U+0669>", "<U+06F9>", "<U+07C9>", "<U+096F>", "<U+09EF>",
       "<U+0A6F>", "<U+0AEF>", "<U+0B6F>", "<U+0BEF>", "<U+0C6F>",
       "<U+0CEF>", "<U+0D6F>", "<U+0DEF>", "<U+0E59>", "<U+0ED9>",
       "<U+0F29>", "<U+1049>", "<U+1099>", "<U+17E9>", "<U+1819>",
       "<U+194F>", "<U+19D9>", "<U+1A89>", "<U+1A99>", "<U+1B59>",
       "<U+1BB9>", "<U+1C49>", "<U+1C59>", "<U+A629>", "<U+A8D9>",
       "<U+A909>", "<U+A9D9>", "<U+A9F9>", "<U+AA59>", "<U+ABF9>",
       "<U+FF19>", "<U+104A9>", "<U+10D39>", "<U+1106F>", "<U+110F9>",
       "<U+1113F>", "<U+111D9>", "<U+112F9>", "<U+11459>", "<U+114D9>",
       "<U+11659>", "<U+116C9>", "<U+11739>", "<U+118E9>", "<U+11959>",
       "<U+11C59>", "<U+11D59>", "<U+11DA9>", "<U+16A69>", "<U+16AC9>",
       "<U+16B59>", "<U+1D7D7>", "<U+1D7E1>", "<U+1D7EB>", "<U+1D7F5>",
       "<U+1D7FF>", "<U+1E149>", "<U+1E2F9>", "<U+1E959>", "<U+1FBF9>"}
    >>

DigitVal(c) == (CHOOSE i \in 1 .. 10 : c \in DecimalDigits[i]) - 1

IsDigit(c) == \E i \in 1 .. 10 : c \in DecimalDigits[i]

RECURSIVE natOf(_)
natOf(s) == IF s = <<>> THEN 0 ELSE 10 * natOf(SubSeq(s, 1, Len(s) - 1)) + DigitVal(s[Len(s)])

\* the characters int() skips around a number: those of str.strip() but
\* for the separators 0x1c .. 0x1f
IntWhitespace == Whitespace \ {"<0x1c>", "<0x1d>", "<0x1e>", "<0x1f>"}

\* int(text): optional surrounding whitespace, optional sign, one or more
\* decimal digits with single underscores allowed between digits; anything
\* else raises ValueError (ok = FALSE)
int(text) ==
    LET t    == strip(text, IntWhitespace)
        sign == t # <<>> /\ Head(t) \in {"+", "-"}
        d    == IF sign THEN Tail(t) ELSE t
        good == /\ d # <<>>
                /\ \A i \in 1 .. Len(d) :
                      \/ IsDigit(d[i])
                      \/ /\ d[i] = "_" /\ 1 < i /\ i < Len(d)
                         /\ IsDigit(d[i - 1]) /\ IsDigit(d[i + 1])
        n    == natOf(SelectSeq(d, IsDigit))
    IN  IF ~good THEN [ok |-> FALSE, val |-> 0]
        ELSE [ok |-> TRUE, val |-> IF sign /\ Head(t) = "-" THEN 0 - n ELSE n]

\* decimal text of a natural number, as "{}".format(n)
RECURSIVE str(_)
str(n) == IF n < 10 THEN <<Digits[n + 1]>> ELSE str(n \div 10) \o <<Digits[(n % 10) + 1]>>

\* ------------------------------------------------------------- UTF-8
\* A character is written as itself or, with its code point in hexadecimal,
\* as a token "<U+0663>"; a control character is a token "<0x0b>".
HexDigits == <<"0", "1", "2", "3", "4", "5", "6", "7", "8", "9",
               "A", "B", "C", "D", "E", "F">>
HexLower  == <<"0", "1", "2", "3", "4", "5", "6", "7", "8", "9",
               "a", "b", "c", "d", "e", "f">>

HexVal(h) == (CHOOSE i \in 1 .. 16 : HexDigits[i] = h \/ HexLower[i] = h) - 1

\* the number the first n characters of a hexadecimal text denote
RECURSIVE hex(_, _)
hex(t, n) == IF n = 0 THEN 0 ELSE 16 * hex(t, n - 1) + HexVal(SubSeq(t, n, n))

IsToken(c) == Len(c) >= 8 /\ SubSeq(c, 1, 3) = "<U+" /\ SubSeq(c, Len(c), Len(c)) = ">"

code_point(c) == hex(SubSeq(c, 4, Len(c) - 1), Len(c) - 4)

\* the ASCII characters written as themselves (a backquote is not one)
AsciiChars ==
    {
     " ", "!", "\"", "#", "$", "%", "&", "'", "(", ")",
     "*", "+", ",", "-", ".", "/", "0", "1", "2", "3",
     "4", "5", "6", "7", "8", "9", ":", ";", "<", "=",
     ">", "?", "@", "A", "B", "C", "D", "E", "F", "G",
     "H", "I", "J", "K", "L", "M", "N", "O", "P", "Q",
     "R", "S", "T", "U", "V", "W", "X", "Y", "Z", "[",
     "\\", "]", "^", "_", "a", "b", "c", "d", "e",
     "f", "g", "h", "i", "j", "k", "l", "m", "n", "o",
     "p", "q", "r", "s", "t", "u", "v", "w", "x", "y",
     "z", "{", "|", "}", "~", "\t", "\n", "\r", "\f"}

\* the characters from U+0080 to U+07FF that can be written as themselves
TwoByteLiterals ==
    {
     "", "", "", "", "", "", "", "", "", "", "", "", "", "", "", "",
     "", "", "", "", "", "", "", "", "", "", "", "", "", "", "", "",
     " ", "¡", "¢", "£", "¤", "¥", "¦", "§", "¨", "©", "ª", "«", "¬", "­", "®", "¯",
     "°", "±", "²", "³", "´", "µ", "¶", "·", "¸", "¹", "º", "»", "¼", "½", "¾", "¿",
     "À", "Á", "Â", "Ã", "Ä", "Å", "Æ", "Ç", "È", "É", "Ê", "Ë", "Ì", "Í", "Î", "Ï",
     "Ð", "Ñ", "Ò", "Ó", "Ô", "Õ", "Ö", "×", "Ø", "Ù", "Ú", "Û", "Ü", "Ý", "Þ", "ß",
     "à", "á", "â", "ã", "ä", "å", "æ", "ç", "è", "é", "ê", "ë", "ì", "í", "î", "ï",
     "ð", "ñ", "ò", "ó", "ô", "õ", "ö", "÷", "ø", "ù", "ú", "û", "ü", "ý", "þ", "ÿ",
     "ƀ", "Ɓ", "Ƃ", "ƃ", "Ƅ", "ƅ", "Ɔ", "Ƈ", "ƈ", "Ɖ", "Ɗ", "Ƌ", "ƌ", "ƍ", "Ǝ", "Ə",
     "Ɛ", "Ƒ", "ƒ", "Ɠ", "Ɣ", "ƕ", "Ɩ", "Ɨ", "Ƙ", "ƙ", "ƚ", "ƛ", "Ɯ", "Ɲ", "ƞ", "Ɵ",
     "Ơ", "ơ", "Ƣ", "ƣ", "Ƥ", "ƥ", "Ʀ", "Ƨ", "ƨ", "Ʃ", "ƪ", "ƫ", "Ƭ", "ƭ", "Ʈ", "Ư",
     "ư", "Ʊ", "Ʋ", "Ƴ", "ƴ", "Ƶ", "ƶ", "Ʒ", "Ƹ", "ƹ", "ƺ", "ƻ", "Ƽ", "ƽ", "ƾ", "ƿ",
     "ǀ", "ǁ", "ǂ", "ǃ", "Ǆ", "ǅ", "ǆ", "Ǉ", "ǈ", "ǉ", "Ǌ", "ǋ", "ǌ", "Ǎ", "ǎ", "Ǐ",
     "ǐ", "Ǒ", "ǒ", "Ǔ", "ǔ", "Ǖ", "ǖ", "Ǘ", "ǘ", "Ǚ", "ǚ", "Ǜ", "ǜ", "ǝ", "Ǟ", "ǟ",
     "Ǡ", "ǡ", "Ǣ", "ǣ", "Ǥ", "ǥ", "Ǧ", "ǧ", "Ǩ", "ǩ", "Ǫ", "ǫ", "Ǭ", "ǭ", "Ǯ", "ǯ",
     "ǰ", "Ǳ", "ǲ", "ǳ", "Ǵ", "ǵ", "Ƕ", "Ƿ", "Ǹ", "ǹ", "Ǻ", "ǻ", "Ǽ", "ǽ", "Ǿ", "ǿ",
     "ʀ", "ʁ", "ʂ", "ʃ", "ʄ", "ʅ", "ʆ", "ʇ", "ʈ", "ʉ", "ʊ", "ʋ", "ʌ", "ʍ", "ʎ", "ʏ",
     "ʐ", "ʑ", "ʒ", "ʓ", "ʔ", "ʕ", "ʖ", "ʗ", "ʘ", "ʙ", "ʚ", "ʛ", "ʜ", "ʝ", "ʞ", "ʟ",
     "ʠ", "ʡ", "ʢ", "ʣ", "ʤ", "ʥ", "ʦ", "ʧ", "ʨ", "ʩ", "ʪ", "ʫ", "ʬ", "ʭ", "ʮ", "ʯ",
     "ʰ", "ʱ", "ʲ", "ʳ", "ʴ", "ʵ", "ʶ", "ʷ", "ʸ", "ʹ", "ʺ", "ʻ", "ʼ", "ʽ", "ʾ", "ʿ",
     "ˀ", "ˁ", "˂", "˃", "˄", "˅", "ˆ", "ˇ", "ˈ", "ˉ", "ˊ", "ˋ", "ˌ", "ˍ", "ˎ", "ˏ",
     "ː", "ˑ", "˒", "˓", "˔", "˕", "˖", "˗", "˘", "˙", "˚", "˛", "˜", "˝", "˞", "˟",
     "ˠ", "ˡ", "ˢ", "ˣ", "ˤ", "˥", "˦", "˧", "˨", "˩", "˪", "˫", "ˬ", "˭", "ˮ", "˯",
     "˰", "˱", "˲", "˳", "˴", "˵", "˶", "˷", "˸", "˹", "˺", "˻", "˼", "˽", "˾", "˿",
     "΀", "΁", "΂", "΃", "΄", "΅", "Ά", "·", "Έ", "Ή", "Ί", "΋", "Ό", "΍", "Ύ", "Ώ",
     "ΐ", "Α", "Β", "Γ", "Δ", "Ε", "Ζ", "Η", "Θ", "Ι", "Κ", "Λ", "Μ", "Ν", "Ξ", "Ο",
     "Π", "Ρ", "΢", "Σ", "Τ", "Υ", "Φ", "Χ", "Ψ", "Ω", "Ϊ", "Ϋ", "ά", "έ", "ή", "ί",
     "ΰ", "α", "β", "γ", "δ", "ε", "ζ", "η", "θ", "ι", "κ", "λ", "μ", "ν", "ξ", "ο",
     "π", "ρ", "ς", "σ", "τ", "υ", "φ", "χ", "ψ", "ω", "ϊ", "ϋ", "ό", "ύ", "ώ", "Ϗ",
     "ϐ", "ϑ", "ϒ", "ϓ", "ϔ", "ϕ", "ϖ", "ϗ", "Ϙ", "ϙ", "Ϛ", "ϛ", "Ϝ", "ϝ", "Ϟ", "ϟ",
     "Ϡ", "ϡ", "Ϣ", "ϣ", "Ϥ", "ϥ", "Ϧ", "ϧ", "Ϩ", "ϩ", "Ϫ", "ϫ", "Ϭ", "ϭ", "Ϯ", "ϯ",
     "ϰ", "ϱ", "ϲ", "ϳ", "ϴ", "ϵ", "϶", "Ϸ", "ϸ", "Ϲ", "Ϻ", "ϻ", "ϼ", "Ͻ", "Ͼ", "Ͽ",
     "Ҁ", "ҁ", "҂", "҃", "҄", "҅", "҆", "҇", "҈", "҉", "Ҋ", "ҋ", "Ҍ", "ҍ", "Ҏ", "ҏ",
     "Ґ", "ґ", "Ғ", "ғ", "Ҕ", "ҕ", "Җ", "җ", "Ҙ", "ҙ", "Қ", "қ", "Ҝ", "ҝ", "Ҟ", "ҟ",
     "Ҡ", "ҡ", "Ң", "ң", "Ҥ", "ҥ", "Ҧ", "ҧ", "Ҩ", "ҩ", "Ҫ", "ҫ", "Ҭ", "ҭ", "Ү", "ү",
     "Ұ", "ұ", "Ҳ", "ҳ", "Ҵ", "ҵ", "Ҷ", "ҷ", "Ҹ", "ҹ", "Һ", "һ", "Ҽ", "ҽ", "Ҿ", "ҿ",
     "Ӏ", "Ӂ", "ӂ", "Ӄ", "ӄ", "Ӆ", "ӆ", "Ӈ", "ӈ", "Ӊ", "ӊ", "Ӌ", "ӌ", "Ӎ", "ӎ", "ӏ",
     "Ӑ", "ӑ", "Ӓ", "ӓ", "Ӕ", "ӕ", "Ӗ", "ӗ", "Ә", "ә", "Ӛ", "ӛ", "Ӝ", "ӝ", "Ӟ", "ӟ",
     "Ӡ", "ӡ", "Ӣ", "ӣ", "Ӥ", "ӥ", "Ӧ", "ӧ", "Ө", "ө", "Ӫ", "ӫ", "Ӭ", "ӭ", "Ӯ", "ӯ",
     "Ӱ", "ӱ", "Ӳ", "ӳ", "Ӵ", "ӵ", "Ӷ", "ӷ", "Ӹ", "ӹ", "Ӻ", "ӻ", "Ӽ", "ӽ", "Ӿ", "ӿ",
     "ր", "ց", "ւ", "փ", "ք", "օ", "ֆ", "և", "ֈ", "։", "֊", "֋", "֌", "֍", "֎", "֏",
     "֐", "֑", "֒", "֓", "֔", "֕", "֖", "֗", "֘", "֙", "֚", "֛", "֜", "֝", "֞", "֟",
     "֠", "֡", "֢", "֣", "֤", "֥", "֦", "֧", "֨", "֩", "֪", "֫", "֬", "֭", "֮", "֯",
     "ְ", "ֱ", "ֲ", "ֳ", "ִ", "ֵ", "ֶ", "ַ", "ָ", "ֹ", "ֺ", "ֻ", "ּ", "ֽ", "־", "ֿ",
     "׀", "ׁ", "ׂ", "׃", "ׄ", "ׅ", "׆", "ׇ", "׈", "׉", "׊", "׋", "׌", "׍", "׎", "׏",
     "א", "ב", "ג", "ד", "ה", "ו", "ז", "ח", "ט", "י", "ך", "כ", "ל", "ם", "מ", "ן",
     "נ", "ס", "ע", "ף", "פ", "ץ", "צ", "ק", "ר", "ש", "ת", "׫", "׬", "׭", "׮", "ׯ",
     "װ", "ױ", "ײ", "׳", "״", "׵", "׶", "׷", "׸", "׹", "׺", "׻", "׼", "׽", "׾", "׿",
     "ڀ", "ځ", "ڂ", "ڃ", "ڄ", "څ", "چ", "ڇ", "ڈ", "ډ", "ڊ", "ڋ", "ڌ", "ڍ", "ڎ", "ڏ",
     "ڐ", "ڑ", "ڒ", "ړ", "ڔ", "ڕ", "ږ", "ڗ", "ژ", "ڙ", "ښ", "ڛ", "ڜ", "ڝ", "ڞ", "ڟ",
     "ڠ", "ڡ", "ڢ", "ڣ", "ڤ", "ڥ", "ڦ", "ڧ", "ڨ", "ک", "ڪ", "ګ", "ڬ", "ڭ", "ڮ", "گ",
     "ڰ", "ڱ", "ڲ", "ڳ", "ڴ", "ڵ", "ڶ", "ڷ", "ڸ", "ڹ", "ں", "ڻ", "ڼ", "ڽ", "ھ", "ڿ",
     "ۀ", "ہ", "ۂ", "ۃ", "ۄ", "ۅ", "ۆ", "ۇ", "ۈ", "ۉ", "ۊ", "ۋ", "ی", "ۍ", "ێ", "ۏ",
     "ې", "ۑ", "ے", "ۓ", "۔", "ە", "ۖ", "ۗ", "ۘ", "ۙ", "ۚ", "ۛ", "ۜ", "۝", "۞", "۟",
     "۠", "ۡ", "ۢ", "ۣ", "ۤ", "ۥ", "ۦ", "ۧ", "ۨ", "۩", "۪", "۫", "۬", "ۭ", "ۮ", "ۯ",
     "۰", "۱", "۲", "۳", "۴", "۵", "۶", "۷", "۸", "۹", "ۺ", "ۻ", "ۼ", "۽", "۾", "ۿ",
     "ހ", "ށ", "ނ", "ރ", "ބ", "ޅ", "ކ", "އ", "ވ", "މ", "ފ", "ދ", "ތ", "ލ", "ގ", "ޏ",
     "ސ", "ޑ", "ޒ", "ޓ", "ޔ", "ޕ", "ޖ", "ޗ", "ޘ", "ޙ", "ޚ", "ޛ", "ޜ", "ޝ", "ޞ", "ޟ",
     "ޠ", "ޡ", "ޢ", "ޣ", "ޤ", "ޥ", "ަ", "ާ", "ި", "ީ", "ު", "ޫ", "ެ", "ޭ", "ޮ", "ޯ",
     "ް", "ޱ", "޲", "޳", "޴", "޵", "޶", "޷", "޸", "޹", "޺", "޻", "޼", "޽", "޾", "޿",
     "߀", "߁", "߂", "߃", "߄", "߅", "߆", "߇", "߈", "߉", "ߊ", "ߋ", "ߌ", "ߍ", "ߎ", "ߏ",
     "ߐ", "ߑ", "ߒ", "ߓ", "ߔ", "ߕ", "ߖ", "ߗ", "ߘ", "ߙ", "ߚ", "ߛ", "ߜ", "ߝ", "ߞ", "ߟ",
     "ߠ", "ߡ", "ߢ", "ߣ", "ߤ", "ߥ", "ߦ", "ߧ", "ߨ", "ߩ", "ߪ", "߫", "߬", "߭", "߮", "߯",
     "߰", "߱", "߲", "߳", "ߴ", "ߵ", "߶", "߷", "߸", "߹", "ߺ", "߻", "߼", "߽", "߾", "߿"}

\* the length in bytes of the UTF-8 form of a character: by code point for a
\* token; a character written as itself is ASCII, one of TwoByteLiterals,
\* another character of the basic plane (three bytes) or, when it takes two
\* code units, one beyond it (four bytes); a control token is one byte
utf8_len(c) ==
    IF IsToken(c)
    THEN LET n == code_point(c)
         IN  IF n < 128 THEN 1
             ELSE IF n < 2048 THEN 2
             ELSE IF n < 65536 THEN 3
             ELSE 4
    ELSE IF c \in AsciiChars THEN 1
    ELSE IF c \in TwoByteLiterals THEN 2
    ELSE IF Len(c) = 1 THEN 3
    ELSE IF Len(c) = 2 THEN 4
    ELSE 1

\* len(text.encode())
RECURSIVE byte_len(_)
byte_len(text) ==
    IF text = <<>> THEN 0 ELSE utf8_len(Head(text)) + byte_len(Tail(text))

\* bytes.decode(): fails on an invalid byte
decodes(b) == \A i \in 1 .. Len(b) : b[i] # BadByte

\* character order used by sorted() on the names of the model
Alphabet == <<" ", "-", ".", "/", "0", "1", "2", "3", "4", "5", "6", "7", "8", "9",
              "<", ">", "?", "B", "D", "H", "I", "R", "W",
              "a", "b", "c", "d", "e", "f", "g", "i", "m", "n", "t", "x">>

ord(c) == CHOOSE i \in 1 .. Len(Alphabet) : Alphabet[i] = c

RECURSIVE less(_, _)
less(a, b) ==
    IF b = <<>> THEN FALSE
    ELSE IF a = <<>> THEN TRUE
    ELSE IF Head(a) = Head(b) THEN less(Tail(a), Tail(b))
    ELSE ord(Head(a)) < ord(Head(b))

RECURSIVE sorted(_)
sorted(S) ==
    IF S = {} THEN <<>>
    ELSE LET m == CHOOSE x \in S : \A y \in S \ {x} : less(x, y)
         IN  <<m>> \o sorted(S \ {m})

\* ------------------------------------------------------ program constants
ENABLE_DIR_LISTING == TRUE
PUBLIC_DIR         == <<"/", "p", "u", "b", "l", "i", "c">>
CACHE_ENABLED      == TRUE
CACHE_MAX_SIZE     == 50

MIME_TYPES ==
    << <<<<".", "g", "m", "i">>,
         <<"t", "e", "x", "t", "/", "g", "e", "m", "i", "n", "i">>>>,
       <<<<".", "t", "x", "t">>,
         <<"t", "e", "x", "t", "/", "p", "l", "a", "i", "n">>>>,
       <<<<".", "h", "t", "m", "l">>,
         <<"t", "e", "x", "t", "/", "h", "t", "m", "l">>>>,
       <<<<".", "c", "s", "s">>,
         <<"t", "e", "x", "t", "/", "c", "s", "s">>>>,
       <<<<".", "j", "s">>,
         <<"a", "p", "p", "l", "i", "c", "a", "t", "i", "o", "n", "/", "j", "a", "v", "a", "s", "c", "r", "i", "p", "t">>>>,
       <<<<".", "p", "n", "g">>,
         <<"i", "m", "a", "g", "e", "/", "p", "n", "g">>>>,
       <<<<".", "j", "p", "g">>,
         <<"i", "m", "a", "g", "e", "/", "j", "p", "e", "g">>>>,
       <<<<".", "j", "p", "e", "g">>,
         <<"i", "m", "a", "g", "e", "/", "j", "p", "e", "g">>>>,
       <<<<".", "g", "i", "f">>,
         <<"i", "m", "a", "g", "e", "/", "g", "i", "f">>>>,
       <<<<".", "p", "d", "f">>,
         <<"a", "p", "p", "l", "i", "c", "a", "t", "i", "o", "n", "/", "p", "d", "f">>>> >>

OctetStream == <<"a", "p", "p", "l", "i", "c", "a", "t", "i", "o", "n", "/", "o", "c", "t", "e", "t", "-", "s", "t", "r", "e", "a", "m">>

\* literal texts of the two protocols
GeminiScheme    == <<"g", "e", "m", "i", "n", "i", ":", "/", "/">>
IndexGmi        == <<"/", "i", "n", "d", "e", "x", ".", "g", "m", "i">>
TextGemini      == <<"2", "0", " ", "t", "e", "x", "t", "/", "g", "e", "m", "i", "n", "i", "\r", "\n">>
NotFound51      == <<"5", "1", " ", "N", "o", "t", " ", "F", "o", "u", "n", "d", "\r", "\n">>
LinkPrefix      == <<"=", ">", " ">>
ErrDirNotFound  == <<"E", "R", "R", "O", "R", " ", "D", "i", "r", "e", "c", "t", "o", "r", "y", " ", "n", "o", "t", " ", "f", "o", "u", "n", "d", "\n">>
ErrCannotRead   == <<"E", "R", "R", "O", "R", " ", "C", "a", "n", "n", "o", "t", " ", "r", "e", "a", "d", " ", "d", "i", "r", "e", "c", "t", "o", "r", "y", "\n">>
OkUpload        == <<"O", "K", " ", "U", "P", "L", "O", "A", "D", " ">>
Deleted         == <<"D", "E", "L", "E", "T", "E", "D", " ">>
ErrorPrefix     == <<"E", "R", "R", "O", "R", " ">>
NotFoundSuffix  == <<" ", "n", "o", "t", " ", "f", "o", "u", "n", "d", "\n">>
DirTag          == <<"<", "D", "I", "R", ">">>
UnknownTag      == <<"?", "?", "?">>
CmdLIST         == <<"L", "I", "S", "T">>
CmdUPLOAD       == <<"U", "P", "L", "O", "A", "D", " ">>
CmdEND          == <<"E", "N", "D", " ">>
CmdDELETE       == <<"D", "E", "L", "E", "T", "E", " ">>
CmdSEQ          == <<"S", "E", "Q">>
CRLF            == <<"\r", "\n">>
NL              == <<"\n">>

\* ------------------------------------------------------------- helpers
\* variant of safe_join that rejects ".." only between two separators
safe_join_inner_only(base, paths) ==
    LET full == join(<<"/">>, <<strip(base, Slash)>> \o
                              [i \in 1 .. Len(paths) |-> strip(paths[i], Slash)])
    IN  IF contains(full, <<"/", ".", ".", "/">>) THEN None ELSE full

\* safe_join(base, *paths): None when the joined text contains ".."
safe_join(base, paths) ==
    LET full == join(<<"/">>, <<strip(base, Slash)>> \o
                              [i \in 1 .. Len(paths) |-> strip(paths[i], Slash)])
    IN  IF contains(full, <<".", ".">>) THEN None ELSE full

RECURSIVE mimeFrom(_, _)
mimeFrom(filename, table) ==
    IF table = <<>> THEN OctetStream
    ELSE IF endswith(filename, Head(table)[1]) THEN Head(table)[2]
    ELSE mimeFrom(filename, Tail(table))

get_mime_type(filename) == mimeFrom(filename, MIME_TYPES)

\* ------------------------------------------------------------ filesystem
\* The filesystem maps a path, as the sequence of its names, to a directory
\* or to a regular file with its bytes and modification second (st[8]).
Public   == <<"p", "u", "b", "l", "i", "c">>
IndexName == <<"i", "n", "d", "e", "x", ".", "g", "m", "i">>
DirD     == <<"d">>
OddName  == <<"x", ".", ".", "y">>
NameA    == <<"a">>
NameB    == <<"b">>

RECURSIVE dropEmpty(_)
dropEmpty(parts) ==
    IF parts = <<>> THEN <<>>
    ELSE IF Head(parts) \in {<<>>, <<".">>} THEN dropEmpty(Tail(parts))
    ELSE <<Head(parts)>> \o dropEmpty(Tail(parts))

\* the names a path text walks through ("" and "." name no step)
Components(path) == dropEmpty(splitOn(path, "/"))

\* a key names a directory; the empty key is the working directory
is_directory(f, k) == k = <<>> \/ (k \in DOMAIN f /\ f[k].kind = "dir")

\* path resolution by the OS: every segment, "" and "." included, is looked
\* up in what the segments before it name, which has to be a directory
RECURSIVE walk(_, _, _)
walk(f, segs, cur) ==
    IF segs = <<>> THEN TRUE
    ELSE IF ~is_directory(f, cur) THEN FALSE
    ELSE IF Head(segs) \in {<<>>, <<".">>} THEN walk(f, Tail(segs), cur)
    ELSE walk(f, Tail(segs), Append(cur, Head(segs)))

\* the path text names an entry of the filesystem
resolves(f, path) ==
    /\ path # <<>>
    /\ walk(f, splitOn(path, "/"), <<>>)
    /\ Components(path) = <<>> \/ Components(path) \in DOMAIN f

DirEntry == [kind |-> "dir", data |-> <<>>, mtime |-> 0]

FileEntry(data, mtime) == [kind |-> "file", data |-> data, mtime |-> mtime]

InitFs ==
    (<<Public>> :> DirEntry) @@
    (<<Public, IndexName>> :> FileEntry(<<"h", "i">>, 0)) @@
    (<<Public, DirD>> :> DirEntry) @@
    (<<Public, DirD, OddName>> :> FileEntry(<<"x">>, 0))

\* os.stat(path): TypeError for None, OSError for a path that does not
\* resolve; st[6] is the size of the file in bytes
os_stat(f, path) ==
    IF path = None THEN [err |-> "TypeError", kind |-> "none", size |-> 0, mtime |-> 0]
    ELSE IF ~resolves(f, path)
         THEN [err |-> "OSError", kind |-> "none", size |-> 0, mtime |-> 0]
    ELSE IF Components(path) = <<>>
         THEN [err |-> "", kind |-> "dir", size |-> 0, mtime |-> 0]
    ELSE LET e == f[Components(path)]
         IN  [err |-> "", kind |-> e.kind, size |-> byte_len(e.data), mtime |-> e.mtime]

os_path_exists(f, path) == os_stat(f, path).err = ""

\* the names os.listdir(path) yields for a directory
os_listdir(f, path) ==
    LET d == Components(path)
    IN  {k[Len(k)] : k \in {k \in DOMAIN f : Len(k) = Len(d) + 1 /\ SubSeq(k, 1, Len(d)) = d}}

\* open(path, "wb") succeeds when the last segment is a name, the segments
\* before it resolve to a directory and the path is not itself a directory
can_write(f, path) ==
    LET segs == splitOn(path, "/")
        k    == Components(path)
    IN  /\ segs[Len(segs)] \notin {<<>>, <<".">>}
        /\ walk(f, segs, <<>>)
        /\ (k \in DOMAIN f => f[k].kind = "file")

write_file(f, path, data, t) ==
    LET k == Components(path)
    IN  [x \in DOMAIN f \cup {k} |-> IF x = k THEN FileEntry(data, t) ELSE f[x]]

\* os.remove(path) of a regular file
remove_file(f, path) == [x \in DOMAIN f \ {Components(path)} |-> f[x]]

Access(op, path) == [op |-> op, path |-> path]

\* --------------------------------------------------------- content cache
\* file_cache is a dict: a sequence of entries in insertion order
cache_index(cache, filepath) ==
    LET hits == {i \in 1 .. Len(cache) : cache[i].path = filepath}
    IN  IF hits = {} THEN 0 ELSE CHOOSE i \in hits : TRUE

\* dict assignment d[key] = value: an existing key keeps its position
dict_set(d, i, entry) ==
    IF i = 0 THEN Append(d, entry) ELSE [d EXCEPT ![i] = entry]

\* get_file_content that evicts only above CACHE_MAX_SIZE entries
get_file_content_late_evict(f, cache, filepath, readFails) ==
    LET st  == os_stat(f, filepath)
        i   == cache_index(cache, filepath)
        hit == CACHE_ENABLED /\ i # 0 /\ cache[i].mtime = st.mtime
        content == f[Components(filepath)].data
        evicted == IF Len(cache) > CACHE_MAX_SIZE THEN Tail(cache) ELSE cache
        entry   == [path |-> filepath, content |-> content, mtime |-> st.mtime]
    IN  IF st.err # ""
        THEN [content |-> None, cache |-> cache, access |-> {Access("stat", filepath)}]
        ELSE IF hit
        THEN [content |-> cache[i].content, cache |-> cache,
              access |-> {Access("stat", filepath)}]
        ELSE IF readFails \/ st.kind # "file"
        THEN [content |-> None, cache |-> cache,
              access |-> {Access("stat", filepath), Access("read", filepath)}]
        ELSE [content |-> content,
              cache |-> dict_set(evicted, cache_index(evicted, filepath), entry),
              access |-> {Access("stat", filepath), Access("read", filepath)}]

\* get_file_content that evicts the entry inserted last
get_file_content_lifo(f, cache, filepath, readFails) ==
    LET st  == os_stat(f, filepath)
        i   == cache_index(cache, filepath)
        hit == CACHE_ENABLED /\ i # 0 /\ cache[i].mtime = st.mtime
        content == f[Components(filepath)].data
        evicted == IF Len(cache) >= CACHE_MAX_SIZE
                   THEN SubSeq(cache, 1, Len(cache) - 1) ELSE cache
        entry   == [path |-> filepath, content |-> content, mtime |-> st.mtime]
    IN  IF st.err # ""
        THEN [content |-> None, cache |-> cache, access |-> {Access("stat", filepath)}]
        ELSE IF hit
        THEN [content |-> cache[i].content, cache |-> cache,
              access |-> {Access("stat", filepath)}]
        ELSE IF readFails \/ st.kind # "file"
        THEN [content |-> None, cache |-> cache,
              access |-> {Access("stat", filepath), Access("read", filepath)}]
        ELSE [content |-> content,
              cache |-> dict_set(evicted, cache_index(evicted, filepath), entry),
              access |-> {Access("stat", filepath), Access("read", filepath)}]

\* get_file_content that never takes the cached copy
get_file_content_no_hit(f, cache, filepath, readFails) ==
    LET st  == os_stat(f, filepath)
        content == f[Components(filepath)].data
        evicted == IF Len(cache) >= CACHE_MAX_SIZE THEN Tail(cache) ELSE cache
        entry   == [path |-> filepath, content |-> content, mtime |-> st.mtime]
    IN  IF st.err # ""
        THEN [content |-> None, cache |-> cache, access |-> {Access("stat", filepath)}]
        ELSE IF readFails \/ st.kind # "file"
        THEN [content |-> None, cache |-> cache,
              access |-> {Access("stat", filepath), Access("read", filepath)}]
        ELSE [content |-> content,
              cache |-> dict_set(evicted, cache_index(evicted, filepath), entry),
              access |-> {Access("stat", filepath), Access("read", filepath)}]

\* get_file_content that looks in the cache before it stats the file
get_file_content_cache_first(f, cache, filepath, readFails) ==
    LET st  == os_stat(f, filepath)
        i   == cache_index(cache, filepath)
        content == f[Components(filepath)].data
        evicted == IF Len(cache) >= CACHE_MAX_SIZE THEN Tail(cache) ELSE cache
        entry   == [path |-> filepath, content |-> content, mtime |-> st.mtime]
    IN  IF i # 0 /\ (st.err # "" \/ cache[i].mtime = st.mtime)
        THEN [content |-> cache[i].content, cache |-> cache,
              access |-> {Access("stat", filepath)}]
        ELSE IF st.err # ""
        THEN [content |-> None, cache |-> cache, access |-> {Access("stat", filepath)}]
        ELSE IF readFails \/ st.kind # "file"
        THEN [content |-> None, cache |-> cache,
              access |-> {Access("stat", filepath), Access("read", filepath)}]
        ELSE [content |-> content,
              cache |-> dict_set(evicted, cache_index(evicted, filepath), entry),
              access |-> {Access("stat", filepath), Access("read", filepath)}]

\* get_file_content(filepath): content is None when stat or the read fails;
\* readFails is the outcome of open()/read() on the device
get_file_content(f, cache, filepath, readFails) ==
    LET st  == os_stat(f, filepath)
        i   == cache_index(cache, filepath)
        hit == CACHE_ENABLED /\ i # 0 /\ cache[i].mtime = st.mtime
        content == f[Components(filepath)].data
        evicted == IF Len(cache) >= CACHE_MAX_SIZE THEN Tail(cache) ELSE cache
        entry   == [path |-> filepath, content |-> content, mtime |-> st.mtime]
    IN  IF st.err # ""
        THEN [content |-> None, cache |-> cache, access |-> {Access("stat", filepath)}]
        ELSE IF hit
        THEN [content |-> cache[i].content, cache |-> cache,
              access |-> {Access("stat", filepath)}]
        ELSE IF readFails \/ st.kind # "file"
        THEN [content |-> None, cache |-> cache,
              access |-> {Access("stat", filepath), Access("read", filepath)}]
        ELSE [content |-> content,
              cache |-> IF CACHE_ENABLED
                        THEN dict_set(evicted, cache_index(evicted, filepath), entry)
                        ELSE cache,
              access |-> {Access("stat", filepath), Access("read", filepath)}]

\* ------------------------------------------------------------------ state
VARIABLES
    now,                  \* int(time.time())
    server,               \* "up" while run_server's gather runs, else "down"
    fs,                   \* the filesystem
    file_cache,           \* file_cache
    client_uploads,       \* client_uploads: peer address -> dict of sessions
    conns,                \* accepted connections, in order of acceptance; out is
                          \* what the handler wrote in its latest step
    total_clients,
    clients_this_sec,
    max_clients_per_sec,
    last_sec_tick,
    fsAccess,             \* filesystem calls made by the last step
    ncmds,                \* request and command lines read so far
    last,                 \* the last step: operation, connection, input
    hist                  \* history: got is the result of the latest
                          \* get_file_content call per path made since Init,
                          \* warm the number of files a warm start has
                          \* served before it, perSec the number of
                          \* retrieval connections accepted in each second,
                          \* popped the names of the sessions END removed

vars == <<now, server, fs, file_cache, client_uploads, conns, total_clients,
          clients_this_sec, max_clients_per_sec, last_sec_tick, fsAccess, ncmds, last,
          hist>>

telemetry == <<total_clients, clients_this_sec, max_clients_per_sec, last_sec_tick>>

\* run_server, from the first exception of one of its loops to its return:
\*   "up"          every loop runs
\*   "failing"     file_server_loop has raised, gather has yet to re-raise
\*   "interrupted" stats_loop or wifi_watchdog has raised, gather has yet
\*                 to re-raise
\*   "closing"     the finally clause has closed the Gemini server and waits
\*                 for it; file_server_loop is gone
\*   "stopping"    the same, file_server_loop still polls its socket
\*   "down"        run_server has returned and the event loop has stopped
\* tasks are scheduled until the event loop stops
scheduled == server # "down"

\* the Gemini server accepts until run_server's finally clause closes it
gemini_listening == server \in {"up", "failing", "interrupted"}

\* file_server_loop polls its socket until it raises or the event loop stops
file_listening == server \in {"up", "interrupted", "stopping"}

Conn(port, addr, pc) ==
    [port |-> port, addr |-> addr, pc |-> pc, out |-> <<>>, closed |-> FALSE]

Last(op, c, input) == [op |-> op, conn |-> c, input |-> input]

Init ==
    /\ now = 0
    /\ server = "up"
    /\ fs = InitFs
    /\ file_cache = <<>>
    /\ client_uploads = [a \in {} |-> <<>>]
    /\ conns = <<>>
    /\ total_clients = 0
    /\ clients_this_sec = 0
    /\ max_clients_per_sec = 0
    /\ last_sec_tick = 0
    /\ fsAccess = {}
    /\ ncmds = 0
    /\ last = Last("init", 0, <<>>)
    /\ hist = [got |-> [p \in {} |-> <<>>], perSec |-> [s \in {} |-> 0], warm |-> 0,
              popped |-> {}]

\* the clock moves to the next second
Tick ==
    /\ scheduled
    /\ now < MaxTime
    /\ now' = now + 1
    /\ fsAccess' = {}
    /\ last' = Last("tick", 0, <<>>)
    /\ UNCHANGED <<server, fs, file_cache, client_uploads, conns, telemetry, ncmds, hist>>

\* --------------------------------------------------------- Gemini server
\* request lines a retrieval client sends
GeminiRequests ==
    { <<"/", "\r", "\n">>,
      <<"/", "a", "\r", "\n">>,
      <<"/", ".", ".", "/", "a", "\r", "\n">>,
      <<"g", "e", "m", "i", "n", "i", ":", "/", "/", "h", "/", "d", "\r", "\n">>,
      <<"g", "e", "m", "i", "n", "i", ":", "/", "/", "h", "\r", "\n">>,
      <<"\r", "\n">>,
      <<BadByte, "\r", "\n">> }

\* the accept loop of start_server: a task is created for the handler
gemini_accept(addr) ==
    /\ gemini_listening
    /\ conns' = Append(conns, Conn("gemini", addr, "spawned"))
    /\ fsAccess' = {}
    /\ last' = Last("gemini_accept", Len(conns) + 1, <<>>)
    /\ hist' = [hist EXCEPT !.perSec =
                   [s \in DOMAIN hist.perSec \cup {now} |->
                       IF s = now
                       THEN (IF now \in DOMAIN hist.perSec THEN hist.perSec[now] ELSE 0) + 1
                       ELSE hist.perSec[s]]]
    /\ UNCHANGED <<now, server, fs, file_cache, client_uploads, telemetry, ncmds>>

\* handle_gemini_client, once its task is scheduled, up to its first await:
\* the telemetry counters
gemini_start(c) ==
    /\ scheduled
    /\ c \in 1 .. Len(conns)
    /\ conns[c].port = "gemini" /\ conns[c].pc = "spawned"
    /\ total_clients' = total_clients + 1
    /\ IF now # last_sec_tick
       THEN /\ max_clients_per_sec' = IF clients_this_sec + 1 > max_clients_per_sec
                                      THEN clients_this_sec + 1
                                      ELSE max_clients_per_sec
            /\ clients_this_sec' = 0
            /\ last_sec_tick' = now
       ELSE /\ clients_this_sec' = clients_this_sec + 1
            /\ UNCHANGED <<max_clients_per_sec, last_sec_tick>>
    /\ conns' = [conns EXCEPT ![c].pc = "read"]
    /\ fsAccess' = {}
    /\ last' = Last("gemini_start", c, <<>>)
    /\ UNCHANGED <<now, server, fs, file_cache, client_uploads, ncmds, hist>>

\* the request text after the scheme and default-document rules
normalize_request(text) ==
    LET r0 == strip(text, Whitespace)
        ps == find(r0, <<"/">>, 9)
        r1 == IF startswith(r0, GeminiScheme)
              THEN (IF ps # -1 THEN From(r0, ps) ELSE <<"/">>)
              ELSE r0
    IN  IF r1 = <<"/">> THEN IndexGmi ELSE r1

\* the directory branch: one link line per entry, in sorted order; a stat
\* of a rejected entry path raises and ends the loop
RECURSIVE listing(_, _, _, _)
listing(f, request, filepath, entries) ==
    IF entries = <<>> THEN [raised |-> FALSE, lines |-> <<>>, access |-> {}]
    ELSE LET entry == Head(entries)
             ep    == rstrip(request, Slash) \o <<"/">> \o entry
             full  == safe_join(filepath, <<entry>>)
             est   == os_stat(f, full)
             rest  == listing(f, request, filepath, Tail(entries))
             line  == LinkPrefix \o (IF est.err = "" /\ est.kind = "dir"
                                     THEN ep \o <<"/">> ELSE ep) \o <<" ">> \o entry
         IN  IF est.err = "TypeError"
             THEN [raised |-> TRUE, lines |-> <<>>, access |-> {}]
             ELSE [raised |-> rest.raised,
                   lines  |-> <<line>> \o rest.lines,
                   access |-> {Access("stat", full)} \cup rest.access]

\* handle_gemini_client from the decoded request to the last write
gemini_respond(f, cache, text, readFails) ==
    LET request  == normalize_request(text)
        filepath == safe_join(PUBLIC_DIR, <<lstrip(request, Slash)>>)
        st       == os_stat(f, filepath)
        is_dir   == st.err = "" /\ st.kind = "dir"
        is_file  == st.err = "" /\ st.kind = "file"
        ls       == listing(f, request, filepath, sorted(os_listdir(f, filepath)))
        got      == get_file_content(f, cache, filepath, readFails)
    IN  IF st.err = "TypeError"
        THEN [exc |-> TRUE, writes |-> <<>>, cache |-> cache, access |-> {}]
        ELSE IF is_dir
        THEN IF ~ENABLE_DIR_LISTING
             THEN [exc |-> FALSE, writes |-> <<NotFound51>>, cache |-> cache,
                   access |-> {Access("stat", filepath)}]
             ELSE IF ls.raised
             THEN [exc |-> FALSE, writes |-> <<NotFound51>>, cache |-> cache,
                   access |-> {Access("stat", filepath), Access("listdir", filepath)}
                              \cup ls.access]
             ELSE [exc |-> FALSE,
                   writes |-> <<TextGemini, join(<<"\n">>, ls.lines)>>,
                   cache |-> cache,
                   access |-> {Access("stat", filepath), Access("listdir", filepath)}
                              \cup ls.access]
        ELSE IF is_file
        THEN IF got.content # None /\ got.content # <<>>
             THEN [exc |-> FALSE,
                   writes |-> <<<<"2", "0", " ">> \o get_mime_type(filepath) \o CRLF,
                                got.content>>,
                   cache |-> got.cache,
                   access |-> {Access("stat", filepath)} \cup got.access]
             ELSE [exc |-> FALSE, writes |-> <<NotFound51>>, cache |-> got.cache,
                   access |-> {Access("stat", filepath)} \cup got.access]
        ELSE [exc |-> FALSE, writes |-> <<NotFound51>>, cache |-> cache,
              access |-> {Access("stat", filepath)}]

\* the path handle_gemini_client hands to get_file_content, None when the
\* request does not reach the file branch
requested_file(f, text) ==
    LET filepath == safe_join(PUBLIC_DIR, <<lstrip(normalize_request(text), Slash)>>)
        st       == os_stat(f, filepath)
    IN  IF st.err = "" /\ st.kind = "file" THEN filepath ELSE None

\* reader.read raises: close without a response
gemini_read_fails(c) ==
    /\ scheduled
    /\ c \in 1 .. Len(conns)
    /\ conns[c].port = "gemini" /\ conns[c].pc = "read"
    /\ conns' = [conns EXCEPT ![c].pc = "done", ![c].closed = TRUE]
    /\ fsAccess' = {}
    /\ last' = Last("gemini_read_fails", c, <<>>)
    /\ UNCHANGED <<now, server, fs, file_cache, client_uploads, telemetry, ncmds, hist>>

\* handle_gemini_client from the request read to `await writer.drain()`;
\* bytes that do not decode take the exit of a failed read, which closes
handle_gemini_client(c, raw, readFails) ==
    /\ scheduled
    /\ c \in 1 .. Len(conns)
    /\ conns[c].port = "gemini" /\ conns[c].pc = "read"
    /\ ncmds' = ncmds + 1
    /\ IF ~decodes(raw)
       THEN /\ conns' = [conns EXCEPT ![c].pc = "done", ![c].closed = TRUE]
            /\ fsAccess' = {}
            /\ UNCHANGED <<file_cache, hist>>
       ELSE \E r \in {gemini_respond(fs, file_cache, raw, readFails)},
               p \in {requested_file(fs, raw)} :
            LET g == get_file_content(fs, file_cache, p, readFails)
            IN  /\ hist' = IF p = None THEN hist
                           ELSE [hist EXCEPT !.got =
                                   [q \in DOMAIN hist.got \cup {p} |->
                                       IF q = p
                                       THEN [content |-> g.content,
                                             mtime |-> os_stat(fs, p).mtime]
                                       ELSE hist.got[q]]]
                /\ conns' = IF r.exc
                            THEN [conns EXCEPT ![c].pc = "raised"]
                            ELSE [conns EXCEPT ![c].pc = "drain",
                                               ![c].out = conns[c].out \o r.writes]
                /\ file_cache' = r.cache
                /\ fsAccess' = r.access
    /\ last' = Last("handle_gemini_client", c, raw)
    /\ UNCHANGED <<now, server, fs, client_uploads, telemetry>>

\* handle_gemini_client from `await writer.drain()` on: a drain that raises
\* (the peer is gone) ends the handler before writer.close()
gemini_close(c, drainOk) ==
    /\ scheduled
    /\ c \in 1 .. Len(conns)
    /\ conns[c].port = "gemini" /\ conns[c].pc = "drain"
    /\ conns' = IF drainOk
                THEN [conns EXCEPT ![c].pc = "done", ![c].closed = TRUE]
                ELSE [conns EXCEPT ![c].pc = "raised"]
    /\ fsAccess' = {}
    /\ last' = Last("gemini_close", c, <<>>)
    /\ UNCHANGED <<now, server, fs, file_cache, client_uploads, telemetry, ncmds, hist>>

\* ------------------------------------------------- file transfer server
\* what get_extra_info("peername") does on a writer built with empty extra
\* info: the stream class indexes the dict or uses dict.get
PeernameOutcomes == {"KeyError", "None"}

\* command lines a transfer client sends
FileLines ==
    { <<"U", "P", "L", "O", "A", "D", " ", "a", " ", "2", "\n">>,
      <<"U", "P", "L", "O", "A", "D", " ", "b", " ", "1", "\n">>,
      <<"U", "P", "L", "O", "A", "D", " ", ".", ".", "/", "a", " ", "1", "\n">>,
      <<"U", "P", "L", "O", "A", "D", " ", "a", "\n">>,
      <<"S", "E", "Q", "0", "|", "H", " ", "\n">>,
      <<"S", "E", "Q", "1", "|", "W", "\n">>,
      <<"S", "E", "Q", "2", "|", "W", "\n">>,
      <<"S", "E", "Q", "x", "|", "W", "\n">>,
      <<"S", "E", "Q", "0", "\n">>,
      <<"E", "N", "D", " ", "a", "\n">>,
      <<"E", "N", "D", " ", "b", "\n">>,
      <<"E", "N", "D", " ", ".", ".", "/", "a", "\n">>,
      <<"D", "E", "L", "E", "T", "E", " ", "a", "\n">>,
      <<"D", "E", "L", "E", "T", "E", " ", ".", ".", "/", "a", "\n">>,
      <<"D", "E", "L", "E", "T", "E", " ", "d", "\n">>,
      <<"L", "I", "S", "T", "\n">>,
      <<"L", "I", "S", "T", " ", ".", ".", "\n">>,
      <<"L", "I", "S", "T", " ", "d", "\n">>,
      <<"N", "O", "O", "P", "\n">> }

NoChunks == [i \in {} |-> <<>>]

Session(name, total) == [name |-> name, total |-> total, chunks |-> NoChunks]

\* position of a filename in the sessions dict, 0 when absent
session_index(files, name) ==
    LET hits == {i \in 1 .. Len(files) : files[i].name = name}
    IN  IF hits = {} THEN 0 ELSE CHOOSE i \in hits : TRUE

\* dict.pop(key)
dict_pop(d, i) == SubSeq(d, 1, i - 1) \o SubSeq(d, i + 1, Len(d))

put_chunk(chunks, n, data) ==
    [i \in DOMAIN chunks \cup {n} |-> IF i = n THEN data ELSE chunks[i]]

\* the bytes END writes: chunks.get(i, b"") for i in range(total)
RECURSIVE assemble(_, _, _)
assemble(chunks, i, total) ==
    IF i >= total THEN <<>>
    ELSE (IF i \in DOMAIN chunks THEN chunks[i] ELSE <<>>) \o assemble(chunks, i + 1, total)

Result(exc, files, f, writes, access) ==
    [exc |-> exc, files |-> files, fs |-> f, writes |-> writes, access |-> access]

\* the lines of a LIST response, entries in sorted order
RECURSIVE list_lines(_, _, _)
list_lines(f, dir_path, entries) ==
    IF entries = <<>> THEN [lines |-> <<>>, access |-> {}]
    ELSE LET entry == Head(entries)
             full  == safe_join(dir_path, <<entry>>)
             st    == os_stat(f, full)
             rest  == list_lines(f, dir_path, Tail(entries))
             tag   == IF st.err # "" THEN UnknownTag
                      ELSE IF st.kind = "dir" THEN DirTag
                      ELSE str(st.size) \o <<"B">>
         IN  IF full = None THEN rest
             ELSE [lines  |-> <<tag \o <<" ">> \o entry>> \o rest.lines,
                   access |-> {Access("stat", full)} \cup rest.access]

cmd_list(f, files, line) ==
    LET parts    == split1(line)
        subdir   == IF Len(parts) > 1 THEN parts[2] ELSE <<>>
        dir_path == safe_join(PUBLIC_DIR, <<subdir>>)
        ls       == list_lines(f, dir_path, sorted(os_listdir(f, dir_path)))
    IN  IF dir_path = None
        THEN Result(FALSE, files, f, <<ErrDirNotFound>>, {})
        ELSE IF ~os_path_exists(f, dir_path)
        THEN Result(FALSE, files, f, <<ErrDirNotFound>>, {Access("stat", dir_path)})
        ELSE IF os_stat(f, dir_path).kind # "dir"
        THEN Result(FALSE, files, f, <<ErrCannotRead>>,
                    {Access("stat", dir_path), Access("listdir", dir_path)})
        ELSE Result(FALSE, files, f, <<join(<<"\n">>, ls.lines) \o NL>>,
                    {Access("stat", dir_path), Access("listdir", dir_path)} \cup ls.access)

\* variant of the UPLOAD branch that keeps only the newly announced session
cmd_upload_single(f, files, line) ==
    LET toks  == split(line)
        total == int(toks[3])
    IN  IF Len(toks) # 3 \/ ~total.ok
        THEN Result(TRUE, files, f, <<>>, {})
        ELSE Result(FALSE, <<Session(toks[2], total.val)>>, f, <<>>, {})

\* the UPLOAD branch: three fields, the third an integer
cmd_upload(f, files, line) ==
    LET toks  == split(line)
        total == int(toks[3])
    IN  IF Len(toks) # 3 \/ ~total.ok
        THEN Result(TRUE, files, f, <<>>, {})
        ELSE Result(FALSE,
                    dict_set(files, session_index(files, toks[2]),
                             Session(toks[2], total.val)),
                    f, <<>>, {})

cmd_end(f, files, line, t) ==
    LET filename  == From(line, 4)
        i         == session_index(files, filename)
        save_path == safe_join(PUBLIC_DIR, <<filename>>)
    IN  IF i = 0 THEN Result(FALSE, files, f, <<>>, {})
        ELSE IF save_path = None THEN Result(FALSE, dict_pop(files, i), f, <<>>, {})
        ELSE IF ~can_write(f, save_path)
        THEN Result(TRUE, dict_pop(files, i), f, <<>>, {Access("write", save_path)})
        ELSE Result(FALSE, dict_pop(files, i),
                    write_file(f, save_path, assemble(files[i].chunks, 0, files[i].total), t),
                    <<OkUpload \o filename \o NL>>,
                    {Access("write", save_path)})

cmd_delete(f, files, line) ==
    LET filename  == strip(From(line, 7), Whitespace)
        file_path == safe_join(PUBLIC_DIR, <<filename>>)
    IN  IF file_path = None
        THEN Result(FALSE, files, f, <<ErrorPrefix \o filename \o NotFoundSuffix>>, {})
        ELSE IF ~os_path_exists(f, file_path)
        THEN Result(FALSE, files, f, <<ErrorPrefix \o filename \o NotFoundSuffix>>,
                    {Access("stat", file_path)})
        ELSE IF os_stat(f, file_path).kind # "file"
        THEN Result(TRUE, files, f, <<>>,
                    {Access("stat", file_path), Access("remove", file_path)})
        ELSE Result(FALSE, files, remove_file(f, file_path),
                    <<Deleted \o filename \o NL>>,
                    {Access("stat", file_path), Access("remove", file_path)})

cmd_seq(f, files, line) ==
    LET sep        == find(line, <<"|">>, 0)
        seq_num    == int(SubSeq(line, 4, sep))
        chunk_data == From(line, sep + 1)
        n          == Len(files)
    IN  IF sep = -1 THEN Result(FALSE, files, f, <<>>, {})
        ELSE IF ~seq_num.ok THEN Result(TRUE, files, f, <<>>, {})
        ELSE IF files = <<>> THEN Result(FALSE, files, f, <<>>, {})
        ELSE Result(FALSE,
                    [files EXCEPT ![n].chunks = put_chunk(files[n].chunks, seq_num.val, chunk_data)],
                    f, <<>>, {})

\* one pass of the command loop of handle_file_client on the bytes of a line
file_command(f, files, raw, t) ==
    LET line == strip(raw, Whitespace)
    IN  IF ~decodes(raw) THEN Result(TRUE, files, f, <<>>, {})
        ELSE IF startswith(line, CmdLIST) THEN cmd_list(f, files, line)
        ELSE IF startswith(line, CmdUPLOAD) THEN cmd_upload(f, files, line)
        ELSE IF startswith(line, CmdEND) THEN cmd_end(f, files, line, t)
        ELSE IF startswith(line, CmdDELETE) THEN cmd_delete(f, files, line)
        ELSE IF startswith(line, CmdSEQ) THEN cmd_seq(f, files, line)
        ELSE Result(FALSE, files, f, <<>>, {})

\* file_server_loop: accept a socket, wrap it and spawn a handler on a
\* writer without extra info; a failing wrap_socket raises out of the loop
file_accept(wrapOk) ==
    /\ file_listening
    /\ IF wrapOk
       THEN /\ conns' = Append(conns, Conn("file", None, "spawned"))
            /\ UNCHANGED server
       ELSE /\ server' = IF server = "stopping" THEN "closing" ELSE "failing"
            /\ UNCHANGED conns
    /\ fsAccess' = {}
    /\ last' = Last(IF wrapOk THEN "file_accept" ELSE "wrap_fails", Len(conns) + 1, <<>>)
    /\ UNCHANGED <<now, fs, file_cache, client_uploads, telemetry, ncmds, hist>>

\* stats_loop or wifi_watchdog raises
task_fails ==
    /\ server = "up"
    /\ server' = "interrupted"
    /\ fsAccess' = {}
    /\ last' = Last("task_fails", 0, <<>>)
    /\ UNCHANGED <<now, fs, file_cache, client_uploads, conns, telemetry, ncmds, hist>>

\* run_server resumes with the exception gather re-raises: the except
\* clause, then the finally clause up to `await gemini_server.wait_closed()`
run_server_except ==
    /\ server \in {"failing", "interrupted"}
    /\ server' = IF server = "failing" THEN "closing" ELSE "stopping"
    /\ fsAccess' = {}
    /\ last' = Last("run_server_except", 0, <<>>)
    /\ UNCHANGED <<now, fs, file_cache, client_uploads, conns, telemetry, ncmds, hist>>

\* the rest of run_server's finally clause; asyncio.run returns
run_server_finally ==
    /\ server \in {"closing", "stopping"}
    /\ server' = "down"
    /\ fsAccess' = {}
    /\ last' = Last("run_server_finally", 0, <<>>)
    /\ UNCHANGED <<now, fs, file_cache, client_uploads, conns, telemetry, ncmds, hist>>

\* handle_file_client before the loop: get_extra_info("peername") on the
\* empty extra info raises KeyError, outside the handler's try, or yields
\* None, which then keys the sessions dict of every transfer connection
file_start(c, peername) ==
    /\ scheduled
    /\ c \in 1 .. Len(conns)
    /\ conns[c].port = "file" /\ conns[c].pc = "spawned"
    /\ IF peername = "KeyError"
       THEN /\ conns' = [conns EXCEPT ![c].pc = "raised"]
            /\ UNCHANGED client_uploads
       ELSE /\ client_uploads' =
                  [a \in DOMAIN client_uploads \cup {conns[c].addr} |->
                       IF a \in DOMAIN client_uploads THEN client_uploads[a] ELSE <<>>]
            /\ conns' = [conns EXCEPT ![c].pc = "loop"]
    /\ fsAccess' = {}
    /\ last' = Last("file_start", c, <<>>)
    /\ UNCHANGED <<now, server, fs, file_cache, telemetry, ncmds, hist>>

\* handle_file_client: one line read and processed.  Every response is
\* `await writer.write(...)`: the bytes are written, awaiting the None that
\* write returns raises TypeError.  That and any other exception leave the
\* loop through the handler's except/finally, which closes the writer
handle_file_client(c, raw) ==
    /\ scheduled
    /\ c \in 1 .. Len(conns)
    /\ conns[c].port = "file" /\ conns[c].pc = "loop"
    /\ ncmds' = ncmds + 1
    /\ \E a \in {conns[c].addr} :
       \E r \in {file_command(fs, client_uploads[a], raw, now)} :
           /\ client_uploads' = [client_uploads EXCEPT ![a] = r.files]
           /\ fs' = r.fs
           /\ fsAccess' = r.access
           /\ hist' = IF Len(r.files) < Len(client_uploads[a])
                      THEN [hist EXCEPT !.popped = @ \cup {From(strip(raw, Whitespace), 4)}]
                      ELSE hist
           /\ conns' = IF r.exc \/ r.writes # <<>>
                       THEN [conns EXCEPT ![c].pc = "done", ![c].closed = TRUE,
                                          ![c].out = r.writes]
                       ELSE [conns EXCEPT ![c].out = r.writes]
    /\ last' = Last("handle_file_client", c, raw)
    /\ UNCHANGED <<now, server, file_cache, telemetry>>

\* readline returns no bytes (peer closed) or raises: the handler closes
file_disconnect(c) ==
    /\ scheduled
    /\ c \in 1 .. Len(conns)
    /\ conns[c].port = "file" /\ conns[c].pc = "loop"
    /\ conns' = [conns EXCEPT ![c].pc = "done", ![c].closed = TRUE, ![c].out = <<>>]
    /\ fsAccess' = {}
    /\ last' = Last("file_disconnect", c, <<>>)
    /\ UNCHANGED <<now, server, fs, file_cache, client_uploads, telemetry, ncmds, hist>>

\* ------------------------------------------------------------ the system
\* both servers and the clock
Next ==
    \/ Tick
    \/ \E a \in {"peer1"} : Len(conns) < MaxConns /\ gemini_accept(a)
    \/ \E c \in 1 .. Len(conns) : gemini_start(c)
    \/ \E c \in 1 .. Len(conns) : gemini_read_fails(c)
    \/ \E c \in 1 .. Len(conns), raw \in GeminiRequests, readFails \in BOOLEAN :
          ncmds < MaxInputs /\ handle_gemini_client(c, raw, readFails)
    \/ \E c \in 1 .. Len(conns), drainOk \in BOOLEAN : gemini_close(c, drainOk)
    \/ \E wrapOk \in BOOLEAN :
          (wrapOk => Len(conns) < MaxConns) /\ file_accept(wrapOk)
    \/ \E c \in 1 .. Len(conns), peername \in PeernameOutcomes : file_start(c, peername)
    \/ \E c \in 1 .. Len(conns), raw \in FileLines :
          ncmds < MaxInputs /\ handle_file_client(c, raw)
    \/ \E c \in 1 .. Len(conns) : file_disconnect(c)
    \/ task_fails
    \/ run_server_except
    \/ run_server_finally

Spec == Init /\ [][Next]_vars

\* the upload commands of the transfer protocol
UploadLines ==
    { <<"U", "P", "L", "O", "A", "D", " ", "a", " ", "2", "\n">>,
      <<"U", "P", "L", "O", "A", "D", " ", "b", " ", "1", "\n">>,
      <<"U", "P", "L", "O", "A", "D", " ", "a", "\n">>,
      <<"S", "E", "Q", "0", "|", "H", " ", "\n">>,
      <<"S", "E", "Q", "1", "|", "W", "\n">>,
      <<"S", "E", "Q", "2", "|", "W", "\n">>,
      <<"S", "E", "Q", "x", "|", "W", "\n">>,
      <<"S", "E", "Q", "0", "\n">>,
      <<"E", "N", "D", " ", "a", "\n">>,
      <<"E", "N", "D", " ", "b", "\n">>,
      <<"N", "O", "O", "P", "\n">> }

\* the transfer port alone, for longer sequences of upload commands
TransferNext ==
    \/ Len(conns) < MaxPeers /\ file_accept(TRUE)
    \/ \E c \in 1 .. Len(conns), peername \in PeernameOutcomes : file_start(c, peername)
    \/ \E c \in 1 .. Len(conns), raw \in UploadLines :
          ncmds < MaxCmds /\ handle_file_client(c, raw)
    \/ \E c \in 1 .. Len(conns) : file_disconnect(c)

SpecTransfer == Init /\ [][TransferNext]_vars

\* ------------------------------------------- both ports, paths in and out
\* requests and commands that name a path inside the public directory and
\* the same path behind a parent-directory segment
PathRequests ==
    { <<"/", "\r", "\n">>,
      <<"/", "a", "\r", "\n">>,
      <<"/", ".", ".", "/", "a", "\r", "\n">> }

PathLines ==
    { <<"U", "P", "L", "O", "A", "D", " ", "a", " ", "1", "\n">>,
      <<"U", "P", "L", "O", "A", "D", " ", ".", ".", "/", "a", " ", "1", "\n">>,
      <<"S", "E", "Q", "0", "|", "<U+00E9>", "\n">>,
      <<"E", "N", "D", " ", "a", "\n">>,
      <<"E", "N", "D", " ", ".", ".", "/", "a", "\n">>,
      <<"D", "E", "L", "E", "T", "E", " ", "a", "\n">>,
      <<"D", "E", "L", "E", "T", "E", " ", ".", ".", "/", "a", "\n">>,
      <<"L", "I", "S", "T", "\n">>,
      <<"L", "I", "S", "T", " ", ".", ".", "\n">> }

\* both handlers on sequences of these, long enough for an END to follow
\* its UPLOAD and a DELETE or a request to follow the END
PathNext ==
    \/ \E a \in {"peer1"} : Len(conns) < MaxPathConns /\ gemini_accept(a)
    \/ \E c \in 1 .. Len(conns) : gemini_start(c)
    \/ \E c \in 1 .. Len(conns), raw \in PathRequests, readFails \in BOOLEAN :
          ncmds < MaxPathInputs /\ handle_gemini_client(c, raw, readFails)
    \/ \E c \in 1 .. Len(conns), drainOk \in BOOLEAN : gemini_close(c, drainOk)
    \/ Len(conns) < MaxPathConns /\ file_accept(TRUE)
    \/ \E c \in 1 .. Len(conns), peername \in PeernameOutcomes : file_start(c, peername)
    \/ \E c \in 1 .. Len(conns), raw \in PathLines :
          ncmds < MaxPathInputs /\ handle_file_client(c, raw)

SpecPaths == Init /\ [][PathNext]_vars

\* ------------------------------------------------ a server with a warm cache
\* the state after the files f1 .. fn of the public directory, written in
\* second 0, have been served once each in that second: n entries in the
\* cache, in the order they were served.  The run starts in second 0 or in
\* the next one and stays within that second.
FillName(i) == <<"f">> \o str(i)

FillPath(i) == safe_join(PUBLIC_DIR, <<FillName(i)>>)

WarmFs ==
    [k \in DOMAIN InitFs \cup {<<Public, FillName(i)>> : i \in 1 .. CACHE_MAX_SIZE} |->
        IF k \in DOMAIN InitFs THEN InitFs[k]
        ELSE FileEntry(str(CHOOSE i \in 1 .. CACHE_MAX_SIZE : k = <<Public, FillName(i)>>), 0)]

WarmCache(n) ==
    [i \in 1 .. n |-> [path |-> FillPath(i), content |-> str(i), mtime |-> 0]]

WarmInit ==
    \E n \in {CACHE_MAX_SIZE - 1, CACHE_MAX_SIZE}, t \in {0, 1} :
        /\ now = t
        /\ server = "up"
        /\ fs = WarmFs
        /\ file_cache = WarmCache(n)
        /\ client_uploads = [a \in {} |-> <<>>]
        /\ conns = <<>>
        /\ total_clients = n
        /\ clients_this_sec = n
        /\ max_clients_per_sec = 0
        /\ last_sec_tick = 0
        /\ fsAccess = {}
        /\ ncmds = 0
        /\ last = Last("init", 0, <<>>)
        /\ hist = [got |-> [p \in {} |-> <<>>], perSec |-> [s \in {0} |-> n], warm |-> n,
                   popped |-> {}]

\* requests for the default document, the oldest cached file and another one
CacheRequests ==
    { <<"/", "\r", "\n">>,
      <<"/", "f", "1", "\r", "\n">>,
      <<"/", "f", "2", "\r", "\n">> }

\* transfer commands that replace or remove a cached file
CacheLines ==
    { <<"U", "P", "L", "O", "A", "D", " ", "f", "2", " ", "1", "\n">>,
      <<"S", "E", "Q", "0", "|", "W", "\n">>,
      <<"E", "N", "D", " ", "f", "2", "\n">>,
      <<"D", "E", "L", "E", "T", "E", " ", "f", "2", "\n">> }

CacheNext ==
    \/ \E a \in {"peer1"} : Len(conns) < MaxCacheConns /\ gemini_accept(a)
    \/ \E c \in 1 .. Len(conns) : gemini_start(c)
    \/ \E c \in 1 .. Len(conns), raw \in CacheRequests :
          ncmds < MaxCacheInputs /\ handle_gemini_client(c, raw, FALSE)
    \/ \E c \in 1 .. Len(conns), drainOk \in BOOLEAN : gemini_close(c, drainOk)
    \/ Len(conns) < MaxCacheConns /\ file_accept(TRUE)
    \/ \E c \in 1 .. Len(conns) : file_start(c, "None")
    \/ \E c \in 1 .. Len(conns), raw \in CacheLines :
          ncmds < MaxCacheInputs /\ handle_file_client(c, raw)

SpecCache == WarmInit /\ [][CacheNext]_vars

\* ================================================================ claims
HFC == "handle_file_client"
HGC == "handle_gemini_client"

LineUploadA  == <<"U", "P", "L", "O", "A", "D", " ", "a", " ", "2", "\n">>
LineUploadB  == <<"U", "P", "L", "O", "A", "D", " ", "b", " ", "1", "\n">>
LineUploadNoCount == <<"U", "P", "L", "O", "A", "D", " ", "a", "\n">>
LineSeq0     == <<"S", "E", "Q", "0", "|", "H", " ", "\n">>
LineSeq1     == <<"S", "E", "Q", "1", "|", "W", "\n">>
LineSeqNoInt == <<"S", "E", "Q", "x", "|", "W", "\n">>
LineSeqNoBar == <<"S", "E", "Q", "0", "\n">>
LineNoop     == <<"N", "O", "O", "P", "\n">>
LineEndA     == <<"E", "N", "D", " ", "a", "\n">>
LineEndB     == <<"E", "N", "D", " ", "b", "\n">>
LineDeleteUp == <<"D", "E", "L", "E", "T", "E", " ", ".", ".", "/", "a", "\n">>
LineEndUp    == <<"E", "N", "D", " ", ".", ".", "/", "a", "\n">>
NameUp       == <<".", ".", "/", "a">>
BadRequest59 == <<"5", "9", " ", "B", "a", "d", " ", "R", "e", "q", "u", "e", "s", "t", "\r", "\n">>

\* a path text has a parent-directory segment
HasParentSegment(path) ==
    \E i \in 1 .. Len(splitOn(path, "/")) : splitOn(path, "/")[i] = <<".", ".">>

PathChars == {".", "/", "a"}

RECURSIVE Texts(_)
Texts(n) ==
    IF n = 0 THEN {<<>>}
    ELSE LET shorter == Texts(n - 1)
         IN  shorter \cup {Append(t, ch) : t \in shorter, ch \in PathChars}

\* the path text the client named in the last request or command ("" if none)
ClientPath ==
    LET line == strip(last.input, Whitespace)
    IN  IF ~decodes(last.input) THEN <<>>
        ELSE IF last.op = HGC THEN lstrip(normalize_request(last.input), Slash)
        ELSE IF last.op # HFC THEN <<>>
        ELSE IF startswith(line, CmdLIST)
             THEN (IF Len(split1(line)) > 1 THEN split1(line)[2] ELSE <<>>)
        ELSE IF startswith(line, CmdUPLOAD) THEN <<>>
        ELSE IF startswith(line, CmdEND) THEN From(line, 4)
        ELSE IF startswith(line, CmdDELETE) THEN strip(From(line, 7), Whitespace)
        ELSE <<>>

\* the bytes a client put after "|" on a SEQ line, before the line terminator
SentData(raw) == SubSeq(raw, find(raw, <<"|">>, 0) + 2, Len(raw) - 1)

\* C1: a retrieval request whose normalized path has a parent-directory
\* segment is answered with the single status line "59 Bad Request" and the
\* connection is closed.
C1_RejectedPathGets59 ==
    \A c \in 1 .. Len(conns) :
        (/\ last.op = HGC /\ last.conn = c
         /\ decodes(last.input)
         /\ HasParentSegment(normalize_request(last.input)))
        => (conns[c].out = <<BadRequest59>> /\ conns[c].closed)

\* C2: no filesystem call of any handler is ever made on a path with a
\* parent-directory segment: safe_join rejects every such path text, wherever
\* the segment stands and however often it is repeated, and a request or
\* command that names such a path makes no filesystem call at all.
C2_NoParentSegmentAccess ==
    /\ \A a \in fsAccess : a.path # None /\ ~HasParentSegment(a.path)
    /\ HasParentSegment(ClientPath) => fsAccess = {}
    /\ conns = <<>> =>
          \A p \in Texts(MaxPathLen) :
              HasParentSegment(p) => safe_join(PUBLIC_DIR, <<p>>) = None

\* the file a has been written by the END of its session, and an END of
\* "../a" has just dropped the session of that name without an answer and
\* without any filesystem call
C2_Witness ==
    \E c \in 1 .. Len(conns) :
        /\ last.op = HFC /\ last.conn = c /\ last.input = LineEndUp
        /\ {NameA, NameUp} \subseteq hist.popped
        /\ <<Public, NameA>> \in DOMAIN fs
        /\ \A i \in 1 .. Len(client_uploads[None]) : client_uploads[None][i].name # NameUp
        /\ conns[c].out = <<>> /\ ~conns[c].closed
        /\ fsAccess = {}

\* C3: END of a session announced with 2 chunks that holds exactly the chunks
\* 0 and 1 writes the file as the concatenation, in index order, of the bytes
\* the client sent on the two SEQ lines, and answers with the OK line.
C3_UploadByteIdentical ==
    [][\A c \in 1 .. Len(conns) :
          (/\ last'.op = HFC /\ last'.conn = c /\ last'.input = LineEndA
           /\ conns[c].pc = "loop"
           /\ LET files == client_uploads[conns[c].addr]
                  i     == session_index(files, NameA)
              IN  /\ i # 0
                  /\ files[i].total = 2
                  /\ DOMAIN files[i].chunks = 0 .. 1)
          => (/\ <<Public, NameA>> \in DOMAIN fs'
              /\ fs'[<<Public, NameA>>].data = SentData(LineSeq0) \o SentData(LineSeq1)
              /\ conns'[c].out = <<OkUpload \o NameA \o NL>>)]_vars

\* C4 as stated: a connection never holds more than one upload session.
C4_AtMostOneSession ==
    \A a \in DOMAIN client_uploads : Len(client_uploads[a]) <= 1

\* C4 as amended: a connection holds at most one session per filename; a
\* well-formed UPLOAD opens a fresh session under its name, replacing only a
\* prior session of that same name and leaving the sessions announced under
\* other names as they were.
C4_UploadReplacesSameNameOnly ==
    [][\A c \in 1 .. Len(conns) :
          (/\ last'.op = HFC /\ last'.conn = c
           /\ last'.input \in {LineUploadA, LineUploadB}
           /\ conns[c].pc = "loop")
          => LET old  == client_uploads[conns[c].addr]
                 new  == client_uploads'[conns[c].addr]
                 toks == split(strip(last'.input, Whitespace))
                 i    == session_index(new, toks[2])
             IN  /\ i # 0
                 /\ new[i] = Session(toks[2], int(toks[3]).val)
                 /\ \A j, k \in 1 .. Len(new) : new[j].name = new[k].name => j = k
                 /\ \A j \in 1 .. Len(old) :
                       old[j].name # toks[2] =>
                           \E k \in 1 .. Len(new) : new[k] = old[j]
                 /\ \A k \in 1 .. Len(new) :
                       k # i => \E j \in 1 .. Len(old) : old[j] = new[k]]_vars

\* UPLOAD b was processed on a connection that now holds a session for a and
\* one for b
C4_Witness ==
    \E c \in 1 .. Len(conns) :
        /\ last.op = HFC /\ last.conn = c /\ last.input = LineUploadB
        /\ LET files == client_uploads[conns[c].addr]
           IN  /\ Len(files) = 2
               /\ session_index(files, NameA) # 0
               /\ session_index(files, NameB) # 0

\* C5: a SEQ line that directly follows UPLOAD a on the same connection
\* stores its chunk in the session of a, the most recently announced one.
C5_SeqGoesToLatestUpload ==
    [][\A c \in 1 .. Len(conns) :
          (/\ last.op = HFC /\ last.conn = c /\ last.input = LineUploadA
           /\ last'.op = HFC /\ last'.conn = c /\ last'.input = LineSeq0)
          => LET files == client_uploads'[conns[c].addr]
                 i     == session_index(files, NameA)
             IN  i # 0 /\ 0 \in DOMAIN files[i].chunks]_vars

\* C6: every key of every session's chunk map is an index from 0 up to the
\* declared total minus one.
C6_ChunkKeysInRange ==
    \A a \in DOMAIN client_uploads :
        \A i \in 1 .. Len(client_uploads[a]) :
            \A k \in DOMAIN client_uploads[a][i].chunks :
                0 <= k /\ k < client_uploads[a][i].total

\* C7: an unrecognized or malformed command line gets no response, leaves the
\* connection open in its command loop and leaves the upload sessions as
\* they were.
C7_MalformedLineIgnored ==
    [][\A c \in 1 .. Len(conns) :
          (/\ last'.op = HFC /\ last'.conn = c
           /\ last'.input \in {LineNoop, LineUploadNoCount, LineSeqNoInt, LineSeqNoBar})
          => (/\ conns'[c].out = <<>>
              /\ ~conns'[c].closed
              /\ conns'[c].pc = "loop"
              /\ client_uploads' = client_uploads)]_vars

\* C8: chunks received on a connection that has ended are never written: an
\* END that is the first command of a newly started connection, which has
\* received no chunk itself, writes no bytes into any file when every other
\* connection has ended.
C8_ClosedSessionDiscarded ==
    [][\A c \in 1 .. Len(conns) :
          (/\ last.op = "file_start" /\ last.conn = c
           /\ \A d \in 1 .. Len(conns) : d # c => conns[d].closed
           /\ last'.op = HFC /\ last'.conn = c
           /\ last'.input \in {LineEndA, LineEndB})
          => \A p \in DOMAIN fs' :
                 (p \in DOMAIN fs /\ fs'[p] = fs[p]) \/ fs'[p].data = <<>>]_vars

\* C9: a failure tied to one connection (a failed TLS wrap on accept, a
\* failed read, a disconnect, a command or request that raises) leaves the
\* accept loops of both ports running, run_server where it was and every
\* other connection as it was.
C9_ServerSurvivesConnectionFailure ==
    [][last'.op \in {"wrap_fails", "gemini_read_fails", "file_disconnect", HFC, HGC}
          => /\ server' = server
             /\ gemini_listening => gemini_listening'
             /\ file_listening => file_listening'
             /\ \A c \in 1 .. Len(conns) : c # last'.conn => conns'[c] = conns[c]]_vars

\* C10: a retrieval connection whose handler has left its read has received
\* exactly one status line, followed by a body only after status 20, and is
\* closed once the handler is past its drain.
C10_OneResponseThenClose ==
    \A c \in 1 .. Len(conns) :
        (conns[c].port = "gemini" /\ conns[c].pc \notin {"spawned", "read"})
        => (/\ conns[c].pc # "drain" => conns[c].closed
            /\ Len(conns[c].out) \in {1, 2}
            /\ endswith(conns[c].out[1], CRLF)
            /\ Len(conns[c].out) = 2 => startswith(conns[c].out[1], <<"2", "0", " ">>))

\* ------------------------------------------------ claims on the warm server
ReqRoot      == <<"/", "\r", "\n">>
ReqF1        == <<"/", "f", "1", "\r", "\n">>
ReqF2        == <<"/", "f", "2", "\r", "\n">>
LineUploadF2 == <<"U", "P", "L", "O", "A", "D", " ", "f", "2", " ", "1", "\n">>
LineSeqW     == <<"S", "E", "Q", "0", "|", "W", "\n">>
LineEndF2    == <<"E", "N", "D", " ", "f", "2", "\n">>
LineDeleteF2 == <<"D", "E", "L", "E", "T", "E", " ", "f", "2", "\n">>
PathIndex    == safe_join(PUBLIC_DIR, <<IndexName>>)
PathF1       == FillPath(1)
PathF2       == FillPath(2)

CachePaths(cache) == {cache[i].path : i \in 1 .. Len(cache)}

\* the entry of a cached path
CacheEntry(cache, path) == cache[cache_index(cache, path)]

\* C11: after any sequence of get_file_content calls the cache holds at most
\* CACHE_MAX_SIZE entries, one per path
C11_CacheBounded ==
    /\ Len(file_cache) <= CACHE_MAX_SIZE
    /\ Cardinality(CachePaths(file_cache)) = Len(file_cache)

\* a new path has just been inserted and the cache is full
C11_Witness ==
    /\ last.op = HGC /\ last.input = ReqRoot
    /\ Access("read", PathIndex) \in fsAccess
    /\ cache_index(file_cache, PathIndex) # 0
    /\ Len(file_cache) = CACHE_MAX_SIZE

\* the retrieval step just taken handed this path to get_file_content
GotFile(path) ==
    /\ last'.op = HGC
    /\ decodes(last'.input)
    /\ requested_file(fs, last'.input) = path

\* C12: inserting a new path into a cache of CACHE_MAX_SIZE entries evicts
\* exactly one entry, the one inserted earliest (the front of the dict, whose
\* order is insertion order and is not changed by a hit or a refresh), and
\* leaves every other entry as it was
C12_FifoEviction ==
    [][\A p \in {requested_file(fs, last'.input)} :
          (/\ GotFile(p) /\ p # None
           /\ Len(file_cache) = CACHE_MAX_SIZE
           /\ cache_index(file_cache, p) = 0
           /\ cache_index(file_cache', p) # 0)
          => /\ CachePaths(file_cache') =
                   (CachePaths(file_cache) \ {file_cache[1].path}) \cup {p}
             /\ \A i \in 2 .. Len(file_cache) : file_cache'[i - 1] = file_cache[i]
             /\ file_cache'[CACHE_MAX_SIZE] =
                   [path |-> p, content |-> fs[Components(p)].data,
                    mtime |-> fs[Components(p)].mtime]
             /\ Len(file_cache') = CACHE_MAX_SIZE]_vars

\* the default document has just been inserted into a full cache after the
\* oldest entry was read: f1 is gone, f2 is now the oldest
C12_Witness ==
    /\ last.op = HGC /\ last.input = ReqRoot
    /\ Len(conns) = 2 /\ conns[1].out = <<<<"2", "0", " ">> \o OctetStream \o CRLF, str(1)>>
    /\ Len(file_cache) = CACHE_MAX_SIZE
    /\ file_cache[CACHE_MAX_SIZE].path = PathIndex
    /\ cache_index(file_cache, PathF1) = 0
    /\ file_cache[1].path = PathF2

\* the paths get_file_content has been called for, the warm-up included
CalledPaths == DOMAIN hist.got \cup {FillPath(i) : i \in 1 .. hist.warm}

\* what the latest get_file_content call for a path returned and the marker
\* it saw
LastCall(p) ==
    IF p \in DOMAIN hist.got THEN hist.got[p]
    ELSE [content |-> str(CHOOSE i \in 1 .. hist.warm : p = FillPath(i)), mtime |-> 0]

\* the marker of a path is the one its latest get_file_content call saw,
\* and that call returned content
SameMarkerAsLastCall(p) ==
    /\ p \in CalledPaths
    /\ LastCall(p).content # None
    /\ LastCall(p).mtime = os_stat(fs, p).mtime

\* the call made by the step for path p read nothing from the filesystem
\* and returned what the latest call for p returned
ServedFromCache(p) ==
    /\ Access("read", p) \notin fsAccess'
    /\ \A readFails \in BOOLEAN :
          get_file_content(fs, file_cache, p, readFails).content = LastCall(p).content
    /\ hist'.got[p].content = LastCall(p).content

\* C13 as stated: with an unchanged marker the second of two calls for a
\* path returns the content of the first and reads nothing from the
\* filesystem, whatever other calls came in between
C13_SecondCallNeverReads ==
    [][\A p \in {requested_file(fs, last'.input)} :
          (GotFile(p) /\ p # None /\ SameMarkerAsLastCall(p))
          => ServedFromCache(p)]_vars

\* C13 amended: the same, provided the entry of the path is still in the
\* cache at the second call
C13_SecondCallReadsNothingUnlessEvicted ==
    [][\A p \in {requested_file(fs, last'.input)} :
          (/\ GotFile(p) /\ p # None /\ SameMarkerAsLastCall(p)
           /\ cache_index(file_cache, p) # 0)
          => ServedFromCache(p)]_vars

\* the default document was read into the cache by one connection and is
\* served again by the next one without a filesystem read
C13_Witness ==
    /\ last.op = HGC /\ last.input = ReqRoot /\ last.conn = 2
    /\ conns[1].port = "gemini" /\ conns[1].out = <<TextGemini, <<"h", "i">>>>
    /\ conns[2].out = <<TextGemini, <<"h", "i">>>>
    /\ fsAccess = {Access("stat", PathIndex)}

\* the read-through of path p by the step just taken succeeded: the cache
\* now holds an entry of p with the file's marker
ReadThroughSucceeded(p) ==
    /\ cache_index(file_cache', p) # 0
    /\ CacheEntry(file_cache', p).mtime = os_stat(fs, p).mtime

\* C14: a request for an existing regular file is answered `20 <type>` and
\* the bytes the read-through returned whenever the read-through succeeds,
\* a zero-length file included, and `51 Not Found` only when it fails; the
\* request line `/` is answered from index.gmi as `20 text/gemini`
C14_FileAnswered20 ==
    [][\A p \in {requested_file(fs, last'.input)} :
          (GotFile(p) /\ p # None)
          => conns'[last'.conn].out =
                IF ReadThroughSucceeded(p)
                THEN << <<"2", "0", " ">> \o
                           (IF last'.input = ReqRoot
                            THEN <<"t", "e", "x", "t", "/", "g", "e", "m", "i", "n", "i">>
                            ELSE get_mime_type(p)) \o CRLF,
                        CacheEntry(file_cache', p).content >>
                ELSE <<NotFound51>>]_vars

\* C15: END of a session announced with 2 chunks that never received one of
\* them writes the file as the bytes the client sent for the other chunk,
\* with nothing at the place of the missing one, and answers with the OK line
C15_MissingChunkLeavesGap ==
    [][\A c \in 1 .. Len(conns), k \in 0 .. 1 :
          (/\ last'.op = HFC /\ last'.conn = c /\ last'.input = LineEndA
           /\ conns[c].pc = "loop"
           /\ LET files == client_uploads[conns[c].addr]
                  i     == session_index(files, NameA)
              IN  /\ i # 0
                  /\ files[i].total = 2
                  /\ DOMAIN files[i].chunks \cap (0 .. 1) = {1 - k})
          => (/\ <<Public, NameA>> \in DOMAIN fs'
              /\ fs'[<<Public, NameA>>].data =
                    IF k = 1 THEN SentData(LineSeq0) ELSE SentData(LineSeq1)
              /\ conns'[c].out = <<OkUpload \o NameA \o NL>>)]_vars

LineDeleteD  == <<"D", "E", "L", "E", "T", "E", " ", "d", "\n">>
LineDeleteA  == <<"D", "E", "L", "E", "T", "E", " ", "a", "\n">>

\* the name a DELETE line carries
DeleteName(raw) == strip(From(strip(raw, Whitespace), 7), Whitespace)

\* C16: DELETE <name> removes the entry and answers DELETED <name> when the
\* resolved path exists; when the path is rejected or nothing is there it
\* answers ERROR <name> not found and leaves the filesystem and the sessions
\* as they were; either way the connection goes on reading commands
C16_DeleteAnswersAndContinues ==
    [][\A c \in 1 .. Len(conns) :
          (/\ last'.op = HFC /\ last'.conn = c
           /\ last'.input \in {LineDeleteA, LineDeleteD, LineDeleteUp}
           /\ conns[c].pc = "loop")
          => LET name == DeleteName(last'.input)
                 path == safe_join(PUBLIC_DIR, <<name>>)
             IN  /\ conns'[c].pc = "loop" /\ ~conns'[c].closed
                 /\ IF path # None /\ os_path_exists(fs, path)
                    THEN /\ ~os_path_exists(fs', path)
                         /\ conns'[c].out = <<Deleted \o name \o NL>>
                    ELSE /\ conns'[c].out = <<ErrorPrefix \o name \o NotFoundSuffix>>
                         /\ fs' = fs
                         /\ client_uploads' = client_uploads]_vars

\* the cache holds an entry of path p whose marker is not the file's
StaleEntry(p) ==
    /\ cache_index(file_cache, p) # 0
    /\ CacheEntry(file_cache, p).mtime # os_stat(fs, p).mtime

\* C17: a call that refreshes a stale entry keeps the set of cached paths,
\* at every cache size up to CACHE_MAX_SIZE, and changes nothing but the
\* content and the marker of that entry
C17_RefreshInPlace ==
    [][\A p \in {requested_file(fs, last'.input)} :
          (/\ GotFile(p) /\ p # None /\ StaleEntry(p)
           /\ Access("read", p) \in fsAccess'
           /\ ReadThroughSucceeded(p))
          => /\ CachePaths(file_cache') = CachePaths(file_cache)
             /\ \A i \in 1 .. Len(file_cache) :
                   file_cache[i].path # p =>
                      /\ cache_index(file_cache', file_cache[i].path) # 0
                      /\ CacheEntry(file_cache', file_cache[i].path) = file_cache[i]]_vars

\* C18: a retrieval of a file that an upload has overwritten since it was
\* cached returns the uploaded bytes: a 20 response never carries bytes other
\* than the file's (files change only through END, so a cached copy that
\* differs from the file is one END has overwritten)
C18_OverwriteIsServed ==
    [][\A p \in {requested_file(fs, last'.input)} :
          (/\ GotFile(p) /\ p # None
           /\ fs[Components(p)].data # <<>>
           /\ Len(conns'[last'.conn].out) = 2)
          => conns'[last'.conn].out[2] = fs[Components(p)].data]_vars

\* C19: a retrieval of a path that is not on the filesystem (after DELETE
\* removed it) is answered 51 Not Found, a cached entry notwithstanding, and
\* get_file_content of a path whose stat fails returns None and leaves the
\* cache as it is (tried on the path of every DELETE command answered
\* DELETED, right after the command)
C19_DeletedFileNotServed ==
    [][/\ (last'.op = HGC /\ decodes(last'.input))
          => \A path \in {safe_join(PUBLIC_DIR,
                                    <<lstrip(normalize_request(last'.input), Slash)>>)} :
                (path # None /\ ~os_path_exists(fs, path))
                => /\ conns'[last'.conn].out = <<NotFound51>>
                   /\ file_cache' = file_cache
       /\ (/\ last'.op = HFC
           /\ conns'[last'.conn].out # <<>>
           /\ startswith(conns'[last'.conn].out[1], Deleted))
          => \A path \in {safe_join(PUBLIC_DIR, <<DeleteName(last'.input)>>)} :
                (path # None /\ ~os_path_exists(fs', path))
                => \A readFails \in BOOLEAN :
                       LET got == get_file_content(fs', file_cache', path, readFails)
                       IN  got.content = None /\ got.cache = file_cache']_vars

\* f2 was removed by DELETE while cached, and the next request for it got 51
C19_Witness ==
    /\ last.op = HGC /\ last.input = ReqF2
    /\ \E c \in 1 .. Len(conns) :
          conns[c].port = "file" /\ conns[c].out = <<Deleted \o FillName(2) \o NL>>
    /\ <<Public, FillName(2)>> \notin DOMAIN fs
    /\ cache_index(file_cache, PathF2) # 0
    /\ conns[last.conn].out = <<NotFound51>>

\* the retrieval connections accepted so far, and the most accepted in one
\* clock second
AcceptedTotal == LET RECURSIVE Sum(_)
                     Sum(S) == IF S = {} THEN 0
                               ELSE LET s == CHOOSE s \in S : TRUE
                                    IN  hist.perSec[s] + Sum(S \ {s})
                 IN  Sum(DOMAIN hist.perSec)

AcceptedPeak == LET counts == {hist.perSec[s] : s \in DOMAIN hist.perSec} \cup {0}
                IN  CHOOSE m \in counts : \A n \in counts : n <= m

\* retrieval connections accepted whose handler has yet to start
NotStarted ==
    Cardinality({c \in 1 .. Len(conns) :
                    conns[c].port = "gemini" /\ conns[c].pc = "spawned"})

\* C20: total_clients is the number of retrieval connections accepted whose
\* handler has started, and max_clients_per_sec is never more than the most
\* connections accepted in one clock second
C20_TelemetryExact ==
    /\ total_clients = AcceptedTotal - NotStarted
    /\ max_clients_per_sec <= AcceptedPeak

====
